---- MODULE Spec2Model ----
(***************************************************************************)
(* Verification model of the rental-property financial engine of           *)
(* property-pipeline: appreciation-rate resolution                         *)
(* (scripts/appreciation_and_cashflow_analyzer.py) and the monthly         *)
(* cashflow computation (calculate_financial_components and its variants). *)
(***************************************************************************)
EXTENDS Integers, Sequences, FiniteSets, Bags, TLC

VARIABLES
    hist_db,                      \* rows of neighborhood_appreciation JOIN neighborhood_data
    db_status,                    \* what sqlite3 does with the historical store
    neighborhood_appreciation_config, \* config["neighborhood_appreciation_data"]
    pc,                           \* which function has returned
    args,                         \* arguments of the call that was made
    historical_metric_value_raw,  \* value returned by the historical lookup
    ret                           \* value returned (or the exception raised) by the call

vars == <<hist_db, db_status, neighborhood_appreciation_config, pc, args,
          historical_metric_value_raw, ret>>

-----------------------------------------------------------------------------
(* Python values.  None and the empty string are both falsy; an optional   *)
(* number is <<>> (None) or <<v>>.  Strings are sequences of characters.   *)

None == <<>>

Some(v) == <<v>>

\* bounds of the model: rows in the store when the lookup is called directly,
\* rows in the store when the whole resolution runs, periods the rows span
MaxRows == 2

MaxRowsResolve == 1

MaxPeriod == 2

\* str.lower() on the alphabet used for names
LowerChar(c) ==
    CASE c = "A" -> "a"
      [] c = "B" -> "b"
      [] c = "D" -> "d"
      [] c = "X" -> "x"
      [] OTHER -> c

Lower(s) == [i \in 1..Len(s) |-> LowerChar(s[i])]

\* str.replace(old, new) for single characters
Replace(s, old, new) == [i \in 1..Len(s) |-> IF s[i] = old THEN new ELSE s[i]]

\* "c in s" for a single character
HasChar(s, c) == \E i \in 1..Len(s) : s[i] = c

\* SQL: value LIKE '%p%' (p holds no LIKE wildcard once '_' is replaced)
Like(value, p) ==
    \E i \in 0..(Len(value) - Len(p)) : SubSeq(value, i + 1, i + Len(p)) = p

-----------------------------------------------------------------------------
(* The historical-metrics store *)

MIN_HOMES_SOLD_THRESHOLD_HISTORICAL == 5

valid_metrics ==
    { "median_sale_price_ptp_appreciation", "median_ppsf_ptp_appreciation",
      "median_sale_price_quarterly_appreciation", "median_ppsf_quarterly_appreciation",
      "median_sale_price_annual_appreciation", "median_ppsf_annual_appreciation",
      "median_sale_price_3_year_cagr_appreciation", "median_ppsf_3_year_cagr_appreciation",
      "median_sale_price_5_year_cagr_appreciation", "median_ppsf_5_year_cagr_appreciation",
      "median_sale_price_10_year_cagr_appreciation", "median_ppsf_10_year_cagr_appreciation" }

SFR == "Single Family Residential"

M5 == "median_sale_price_5_year_cagr_appreciation"

\* characters are one-letter strings; names are sequences of them
N_A_b == <<"A", "_", "b">>

N_Ab == <<"A", " ", "b">>

N_xab == <<"x", "a", " ", "b">>

N_c == <<"c">>

City_D == <<"D">>

City_d == <<"d">>

City_e == <<"e">>

Row(n, c, t, h, p, m, v) ==
    [neighborhood_name |-> n, city |-> c, property_type |-> t, homes_sold |-> h,
     period_end |-> p, metric_type |-> m, value |-> v]

\* rows the store may hold: usable ones for two neighborhoods in two cities over
\* the periods, and rows of the latest period that the query's filters must drop
\* (other property type, fewer than 5 homes sold, other metric)
Rows ==
    { Row(n, c, SFR, MIN_HOMES_SOLD_THRESHOLD_HISTORICAL, p, M5,
          (IF n = N_Ab THEN 100 ELSE 200) + (IF c = City_D THEN 10 ELSE 20) + p) :
        n \in {N_Ab, N_xab}, c \in {City_D, City_e}, p \in 1..MaxPeriod }
    \cup { Row(N_Ab, City_D, "Condo/Co-op", 9, MaxPeriod, M5, 901),
           Row(N_Ab, City_D, SFR, 4, MaxPeriod, M5, 902),
           Row(N_Ab, City_D, SFR, 9, MaxPeriod,
               "median_sale_price_3_year_cagr_appreciation", 903) }

\* WHERE clause of the two queries (exact when like = FALSE)
QueryRows(db, metric_to_fetch, city_name, normalized_neighborhood_input, like) ==
    { r \in db :
        /\ r.metric_type = metric_to_fetch[1]
        /\ r.property_type = SFR
        /\ r.homes_sold >= MIN_HOMES_SOLD_THRESHOLD_HISTORICAL
        /\ (city_name # None => Lower(r.city) = Lower(city_name))
        /\ IF like THEN Like(Lower(r.neighborhood_name), normalized_neighborhood_input)
                   ELSE Lower(r.neighborhood_name) = normalized_neighborhood_input }

\* ORDER BY nd.period_end ASC: the oldest period instead of the latest
OrderByPeriodAscLimit1(rows) ==
    { r \in rows : \A q \in rows : q.period_end >= r.period_end }

\* ORDER BY nd.period_end DESC LIMIT 1: any row of the latest period
OrderByPeriodDescLimit1(rows) ==
    { r \in rows : \A q \in rows : q.period_end <= r.period_end }

\* a store error answered with 0.0 instead of None
fetch_historical_zero_on_error(db, status, neighborhood_name, city_name, metric_to_fetch, db_path) ==
    IF metric_to_fetch = None \/ neighborhood_name = None THEN {None}
    ELSE IF status # "ok" THEN {Some(0)}
    ELSE IF metric_to_fetch[1] \notin valid_metrics THEN {None}
    ELSE LET normalized_neighborhood_input == Replace(Lower(neighborhood_name), "_", " ")
             result == OrderByPeriodDescLimit1(
                           QueryRows(db, metric_to_fetch, city_name,
                                     normalized_neighborhood_input, FALSE))
             result_like == OrderByPeriodDescLimit1(
                           QueryRows(db, metric_to_fetch, city_name,
                                     normalized_neighborhood_input, TRUE))
         IN  IF result # {} THEN { Some(r.value) : r \in result }
             ELSE IF result_like # {} THEN { Some(r.value) : r \in result_like }
             ELSE {None}

\* the values fetch_historical_appreciation_metric can return
fetch_historical_appreciation_metric(db, status, neighborhood_name, city_name, metric_to_fetch, db_path) ==
    IF metric_to_fetch = None \/ neighborhood_name = None THEN {None}
    ELSE IF status # "ok" THEN {None}              \* except sqlite3.Error
    ELSE IF metric_to_fetch[1] \notin valid_metrics THEN {None}
    ELSE LET normalized_neighborhood_input == Replace(Lower(neighborhood_name), "_", " ")
             result == OrderByPeriodDescLimit1(
                           QueryRows(db, metric_to_fetch, city_name,
                                     normalized_neighborhood_input, FALSE))
             result_like == OrderByPeriodDescLimit1(
                           QueryRows(db, metric_to_fetch, city_name,
                                     normalized_neighborhood_input, TRUE))
         IN  IF result # {} THEN { Some(r.value) : r \in result }
             ELSE IF result_like # {} THEN { Some(r.value) : r \in result_like }
             ELSE {None}

-----------------------------------------------------------------------------
(* JSON values of the configuration file *)

JNull == [t |-> "null"]

JNum(v) == [t |-> "num", v |-> v]

JStr(s) == [t |-> "str", s |-> s]

JList == [t |-> "list"]

JDict(d) == [t |-> "dict", d |-> d]

\* Python truthiness of a JSON value
Truthy(j) ==
    CASE j.t = "null" -> FALSE
      [] j.t = "dict" -> DOMAIN j.d # {}
      [] j.t = "num"  -> j.v # 0
      [] j.t = "str"  -> j.s # ""
      [] OTHER -> TRUE

\* dict.get(key, default)
DictGet(j, key, default) == IF key \in DOMAIN j.d THEN j.d[key] ELSE default

\* texts float() accepts, with their values
NumericText == [s \in {"5", "7"} |-> IF s = "5" THEN 5 ELSE 7]

\* float(x): a number, or the exception raised
FloatOf(j) ==
    CASE j.t = "num" -> [raised |-> "", v |-> j.v]
      [] j.t = "str" -> IF j.s \in DOMAIN NumericText
                        THEN [raised |-> "", v |-> NumericText[j.s]]
                        ELSE [raised |-> "ValueError", v |-> 0]
      [] OTHER -> [raised |-> "TypeError", v |-> 0]

-----------------------------------------------------------------------------
(* calculate_appreciation_returns: resolution of the appreciation rate *)

\* names bound at module level of appreciation_and_cashflow_analyzer.py
ModuleGlobals ==
    { "ROOT", "DEFAULT_DB_PATH", "DEFAULT_CONFIG_PATH",
      "MIN_HOMES_SOLD_THRESHOLD_HISTORICAL", "CAPEX_COMPONENTS", "CONDITION_MULTIPLIERS" }

Source(label, neighborhood, metric) ==
    [label |-> label, neighborhood |-> neighborhood, metric |-> metric]

\* the locals eff_app_rate, market_outlook, source_of_data_message at entry
ResolveStart ==
    [eff_app_rate |-> None, market_outlook |-> JStr("N/A"),
     source_of_data_message |-> Source("N/A", None, ""), raised |-> ""]

\* whether Step 1 calls the historical lookup
HistoricalAttempted(a) ==
    /\ a.fetch_real_data_flag
    /\ a.use_historical_metric_name # None
    /\ a.historical_db_path # None
    /\ a.target_city_for_historical # None

\* Step 1: historical DB
HistoricalStep(st, hv, a) ==
    IF hv # None
    THEN [st EXCEPT !.eff_app_rate = hv,
                    !.market_outlook = JStr("historical_db"),
                    !.source_of_data_message =
                        Source("Historical DB", None, a.use_historical_metric_name[1])]
    ELSE st

\* the normalized spellings tried before the exact key
HoodData_normalized_first(cfg, neighborhood_name) ==
    LET spaced == IF HasChar(neighborhood_name, "_")
                  THEN DictGet(cfg, Replace(neighborhood_name, "_", " "), JNull)
                  ELSE JNull
        underscored == IF ~Truthy(spaced) /\ HasChar(neighborhood_name, " ")
                       THEN DictGet(cfg, Replace(neighborhood_name, " ", "_"), JNull)
                       ELSE spaced
    IN  IF ~Truthy(underscored) THEN DictGet(cfg, neighborhood_name, JNull)
        ELSE underscored

\* the entry of the neighborhood: exact key, then '_' -> ' ', then ' ' -> '_'
HoodData(cfg, neighborhood_name) ==
    LET exact == DictGet(cfg, neighborhood_name, JNull)
        spaced == IF ~Truthy(exact) /\ HasChar(neighborhood_name, "_")
                  THEN DictGet(cfg, Replace(neighborhood_name, "_", " "), JNull)
                  ELSE exact
    IN  IF ~Truthy(spaced) /\ HasChar(neighborhood_name, " ")
        THEN DictGet(cfg, Replace(neighborhood_name, " ", "_"), JNull)
        ELSE spaced

\* reading historical_appreciation and long_term_outlook of an entry
UseEntry(st, entry, outlook_default, source) ==
    LET json_appr_rate == DictGet(entry, "historical_appreciation", JNull)
        f == FloatOf(json_appr_rate)
    IN  IF json_appr_rate.t = "null" THEN st
        ELSE IF f.raised = "ValueError" THEN st
        ELSE IF f.raised # "" THEN [st EXCEPT !.raised = f.raised]
        ELSE [st EXCEPT !.eff_app_rate = Some(f.v),
                        !.market_outlook =
                            DictGet(entry, "long_term_outlook", JStr(outlook_default)),
                        !.source_of_data_message = source]

\* Step 2, first half: the neighborhood's entry of the JSON config
JsonNeighborhoodStep(st, cfg, neighborhood_name) ==
    IF st.eff_app_rate = None /\ Truthy(cfg) /\ neighborhood_name # None
    THEN LET hood_data == HoodData(cfg, neighborhood_name)
         IN  IF Truthy(hood_data)
             THEN UseEntry(st, hood_data, "N/A (from JSON)",
                           Source("JSON Config", neighborhood_name, ""))
             ELSE st
    ELSE st

DefaultKey == <<"d", "e", "f", "a", "u", "l", "t">>

\* Step 2, second half: the 'default' entry of the JSON config
JsonDefaultStep(st, cfg) ==
    IF st.raised = "" /\ st.eff_app_rate = None /\ Truthy(cfg)
    THEN LET default_hood_data == DictGet(cfg, DefaultKey, JNull)
         IN  IF Truthy(default_hood_data)
             THEN UseEntry(st, default_hood_data, "N/A (from JSON default)",
                           Source("JSON Config (default)", None, ""))
             ELSE st
    ELSE st

\* the override of the rate that leaves the earlier tier's labels in place
ManualOverrideStep_keeps_labels(st, manual_appreciation_rate) ==
    IF st.raised = "" /\ manual_appreciation_rate # None
    THEN [st EXCEPT !.eff_app_rate = manual_appreciation_rate]
    ELSE st

\* Step 3: manual override
ManualOverrideStep(st, manual_appreciation_rate) ==
    IF st.raised = "" /\ manual_appreciation_rate # None
    THEN [st EXCEPT !.eff_app_rate = manual_appreciation_rate,
                    !.market_outlook = JStr("manual_override"),
                    !.source_of_data_message = Source("CLI Manual Rate Override", None, "")]
    ELSE st

\* Step 4: final fallback; SCRIPT_DEFAULTS is read as a global name
FinalFallbackStep(st) ==
    IF st.raised = "" /\ st.eff_app_rate = None
    THEN IF "SCRIPT_DEFAULTS" \notin ModuleGlobals
         THEN [st EXCEPT !.raised = "NameError"]
         ELSE [st EXCEPT !.eff_app_rate = Some(0),
                         !.market_outlook = JStr("hardcoded_fallback"),
                         !.source_of_data_message =
                             Source("Script Hardcoded Fallback (0.0%)", None, "")]
    ELSE st

\* the part of the returned dict that reports the resolution
ResolutionResult(st) ==
    IF st.raised # ""
    THEN [raised |-> st.raised, annual_appreciation_rate_used |-> None,
          market_outlook_assessment |-> JNull,
          source_of_appreciation_data |-> Source("", None, "")]
    ELSE [raised |-> "", annual_appreciation_rate_used |-> st.eff_app_rate,
          market_outlook_assessment |-> st.market_outlook,
          source_of_appreciation_data |-> st.source_of_data_message]

\* calculate_appreciation_returns, given what the historical lookup returned
calculate_appreciation_returns(hv, a, cfg) ==
    ResolutionResult(
        FinalFallbackStep(
            ManualOverrideStep(
                JsonDefaultStep(
                    JsonNeighborhoodStep(HistoricalStep(ResolveStart, hv, a),
                                         cfg, a.neighborhood_name),
                    cfg),
                a.manual_appreciation_rate)))

-----------------------------------------------------------------------------
(* Python numbers are modelled as exact fractions [n, d] in lowest terms, d > 0 *)

Abs(x) == IF x < 0 THEN -x ELSE x

RECURSIVE GCD(_, _)
GCD(a, b) == IF b = 0 THEN a ELSE GCD(b, a % b)

Rat(n, d) ==
    LET g == GCD(Abs(n), Abs(d))
        sgn == IF d < 0 THEN -1 ELSE 1
    IN  [n |-> sgn * (n \div g), d |-> sgn * (d \div g)]

R(i) == [n |-> i, d |-> 1]

RAdd(a, b) ==
    LET g == GCD(a.d, b.d)
    IN  Rat(a.n * (b.d \div g) + b.n * (a.d \div g), (a.d \div g) * b.d)

RNeg(a) == [n |-> -a.n, d |-> a.d]

RSub(a, b) == RAdd(a, RNeg(b))

RMul(a, b) ==
    LET g1 == GCD(Abs(a.n), b.d)
        g2 == GCD(Abs(b.n), a.d)
    IN  IF a.n = 0 \/ b.n = 0 THEN R(0)
        ELSE [n |-> (a.n \div g1) * (b.n \div g2), d |-> (a.d \div g2) * (b.d \div g1)]

\* a / b for b # 0
RDiv(a, b) == RMul(a, IF b.n < 0 THEN [n |-> -b.d, d |-> -b.n] ELSE [n |-> b.d, d |-> b.n])

\* the cross products, with the common factor of the denominators taken out
RLt(a, b) == a.n * (b.d \div GCD(a.d, b.d)) < b.n * (a.d \div GCD(a.d, b.d))

RLe(a, b) == a.n * (b.d \div GCD(a.d, b.d)) <= b.n * (a.d \div GCD(a.d, b.d))

\* a ** k for an integer k >= 0
RECURSIVE RPow(_, _)
RPow(a, k) == IF k = 0 THEN R(1) ELSE RMul(a, RPow(a, k - 1))

-----------------------------------------------------------------------------
(* Helpers of the cashflow computation (appreciation_and_cashflow_analyzer.py) *)

\* get_age_multiplier_exclusive_bounds: the bucket bounds belong to the next bucket
get_age_multiplier_exclusive_bounds(age) ==
    IF age < 5 THEN Rat(6, 10)
    ELSE IF age < 15 THEN Rat(9, 10)
    ELSE IF age < 30 THEN Rat(11, 10)
    ELSE IF age < 50 THEN Rat(13, 10)
    ELSE Rat(15, 10)

get_age_multiplier(age) ==
    IF age <= 5 THEN Rat(6, 10)
    ELSE IF age <= 15 THEN Rat(9, 10)
    ELSE IF age <= 30 THEN Rat(11, 10)
    ELSE IF age <= 50 THEN Rat(13, 10)
    ELSE Rat(15, 10)

CONDITION_MULTIPLIERS ==
    [c \in {"excellent", "good", "fair", "poor"} |->
        CASE c = "excellent" -> Rat(7, 10)
          [] c = "good" -> R(1)
          [] c = "fair" -> Rat(13, 10)
          [] c = "poor" -> Rat(17, 10)]

\* str.lower() on the condition words used
LowerWord(w) ==
    CASE w = "Poor" -> "poor"
      [] w = "GOOD" -> "good"
      [] OTHER -> w

\* CONDITION_MULTIPLIERS.get(condition.lower(), 1.0)
ConditionMultiplier(condition) ==
    IF LowerWord(condition) \in DOMAIN CONDITION_MULTIPLIERS
    THEN CONDITION_MULTIPLIERS[LowerWord(condition)]
    ELSE R(1)

Component(name, lifespan, cost_per_sqft, cost_base) ==
    [name |-> name, lifespan |-> lifespan, cost_per_sqft |-> cost_per_sqft,
     cost_base |-> cost_base]

\* the dict in insertion order; None for a key the component does not have
CAPEX_COMPONENTS ==
    << Component("roof", 25, Rat(55, 10), None),
       Component("hvac", 18, Rat(15, 10), R(4500)),
       Component("water_heater", 10, None, R(900)),
       Component("electrical", 35, None, R(1800)),
       Component("plumbing", 45, R(2), None),
       Component("flooring", 10, Rat(35, 10), None),
       Component("appliances", 12, None, R(3000)),
       Component("bathroom_fixtures", 18, None, R(1000)),
       Component("interior_paint", 6, R(1), None),
       Component("cabinets", 18, Rat(125, 100), None),
       Component("exterior_paint", 8, Rat(15, 10), None),
       Component("windows", 20, Rat(175, 100), None),
       Component("driveway", 25, None, R(3000)) >>

Digits == {"0", "1", "2", "3", "4", "5", "6", "7", "8", "9"}

IsDigit(c) == c \in Digits

DigitValue(c) ==
    CASE c = "0" -> 0 [] c = "1" -> 1 [] c = "2" -> 2 [] c = "3" -> 3 [] c = "4" -> 4
      [] c = "5" -> 5 [] c = "6" -> 6 [] c = "7" -> 7 [] c = "8" -> 8 [] c = "9" -> 9

\* the end of the longest run of characters of chars that starts at i
RECURSIVE RunEnd(_, _, _)
RunEnd(s, i, chars) ==
    IF i <= Len(s) /\ s[i] \in chars THEN RunEnd(s, i + 1, chars) ELSE i - 1

\* int() of a text of digits
RECURSIVE DigitsValue(_)
DigitsValue(s) ==
    IF s = <<>> THEN 0 ELSE 10 * DigitsValue(SubSeq(s, 1, Len(s) - 1)) + DigitValue(s[Len(s)])

RECURSIVE Pow10(_)
Pow10(k) == IF k = 0 THEN 1 ELSE 10 * Pow10(k - 1)

\* group 1 of re.search(r'\$?([\d,]+(?:\.\d+)?)', text): <<first, last>>, or None
TaxMatch(text) ==
    LET numchars == Digits \cup {","}
        starts == { i \in 1..Len(text) : text[i] \in numchars }
    IN  IF starts = {} THEN None
        ELSE LET first == CHOOSE i \in starts : \A j \in starts : i <= j
                 runEnd == RunEnd(text, first, numchars)
                 fracEnd == IF runEnd + 2 <= Len(text) /\ text[runEnd + 1] = "."
                               /\ IsDigit(text[runEnd + 2])
                            THEN RunEnd(text, runEnd + 2, Digits)
                            ELSE runEnd
             IN  <<first, fracEnd>>

\* float(group.replace(',', '')): a number, or None for the ValueError
FloatOfGroup(group) ==
    LET text == SelectSeq(group, LAMBDA c : c # ",")
        dots == { i \in 1..Len(text) : text[i] = "." }
    IN  IF text = <<>> THEN None
        ELSE IF dots = {} THEN R(DigitsValue(text))
        ELSE LET dot == CHOOSE i \in dots : TRUE
                 frac == SubSeq(text, dot + 1, Len(text))
             IN  RAdd(R(DigitsValue(SubSeq(text, 1, dot - 1))),
                      Rat(DigitsValue(frac), Pow10(Len(frac))))

\* parse_tax_amount_zero_when_unparsed: 0 instead of None
parse_tax_amount_zero_when_unparsed(tax_info_str) ==
    IF tax_info_str = None \/ TaxMatch(tax_info_str) = None THEN R(0)
    ELSE FloatOfGroup(SubSeq(tax_info_str, TaxMatch(tax_info_str)[1],
                             TaxMatch(tax_info_str)[2]))

parse_tax_amount(tax_info_str) ==
    IF tax_info_str = None THEN None
    ELSE LET match == TaxMatch(tax_info_str)
         IN  IF match = None THEN None
             ELSE FloatOfGroup(SubSeq(tax_info_str, match[1], match[2]))

\* a value returned, or the exception raised
Value(v) == [raised |-> "", v |-> v]

Raise(e) == [raised |-> e, v |-> R(0)]

\* term_years * 12 is an integer for the terms used
calculate_mortgage_payment(principal, annual_rate_percent, term_years) ==
    IF RLe(principal, R(0)) THEN Value(R(0))
    ELSE LET monthly_rate == RDiv(RDiv(annual_rate_percent, R(100)), R(12))
             num_payments == term_years * 12
             growth == RPow(RAdd(R(1), monthly_rate), num_payments)
         IN  IF monthly_rate = R(0)
             THEN IF num_payments > 0 THEN Value(RDiv(principal, R(num_payments)))
                  ELSE Value(R(0))
             ELSE IF RSub(growth, R(1)) = R(0) THEN Raise("ZeroDivisionError")
             ELSE Value(RDiv(RMul(principal, RMul(monthly_rate, growth)),
                             RSub(growth, R(1))))

(***************************************************************************)
(* Python floats: IEEE 754 binary64, round to nearest, ties to even.       *)
(* A magnitude is a natural number written as a sequence of 15-bit limbs,  *)
(* least significant first, without leading zero limbs; a float is         *)
(* sgn * m * 2^e with m of exactly 53 bits, or zero (m = <<>>).            *)
(***************************************************************************)
BigTrim(a) ==
    IF \A i \in 1..Len(a) : a[i] = 0 THEN <<>>
    ELSE SubSeq(a, 1, CHOOSE i \in 1..Len(a) :
                         a[i] # 0 /\ \A j \in (i + 1)..Len(a) : a[j] = 0)

\* a natural number below 2^31
BigOfNat(n) == BigTrim(<<n % 32768, (n \div 32768) % 32768, n \div 1073741824>>)

Limb(a, i) == IF i \in 1..Len(a) THEN a[i] ELSE 0

\* The number whose digit i is s[i] < 2 * 32768 - 1: a carry enters digit i
\* when a digit below it overflows and all digits between pass it on.
BigCarry(s) ==
    LET carry(i) == IF \E j \in 1..(i - 1) :
                          s[j] >= 32768 /\ \A k \in (j + 1)..(i - 1) : s[k] >= 32767
                    THEN 1 ELSE 0
    IN  IF s = <<>> THEN s
        ELSE BigTrim(SubSeq([i \in 1..(Len(s) + 1) |-> (Limb(s, i) + carry(i)) % 32768],
                            1, Len(s) + 1))

BigAdd(a, b) ==
    IF a = <<>> THEN BigTrim(b)
    ELSE IF b = <<>> THEN BigTrim(a)
    ELSE BigCarry(SubSeq([i \in 1..(IF Len(a) < Len(b) THEN Len(b) ELSE Len(a)) |->
                             Limb(a, i) + Limb(b, i)],
                         1, IF Len(a) < Len(b) THEN Len(b) ELSE Len(a)))

\* a - b for a >= b: digit i borrows when a digit difference below it is
\* negative and none between is positive.
BigSub(a, b) ==
    LET borrow(i) == IF \E j \in 1..(i - 1) :
                           /\ a[j] < Limb(b, j)
                           /\ \A k \in (j + 1)..(i - 1) : a[k] <= Limb(b, k)
                     THEN 1 ELSE 0
    IN  IF a = <<>> \/ b = <<>> THEN BigTrim(a)
        ELSE BigTrim(SubSeq([i \in 1..Len(a) |-> (a[i] - Limb(b, i) - borrow(i)) % 32768],
                            1, Len(a)))

\* a * k for a limb k: the low halves of the limb products, and the high
\* halves one limb up
BigMulSmall(a, k) ==
    IF a = <<>> \/ k = 0 THEN <<>>
    ELSE BigAdd(SubSeq([i \in 1..Len(a) |-> (a[i] * k) % 32768], 1, Len(a)),
                <<0>> \o SubSeq([i \in 1..Len(a) |-> (a[i] * k) \div 32768], 1, Len(a)))

\* The sum of a sequence of naturals: the size of the bag with s[i] + 1
\* copies of each i, less its Len(s) extra copies.
Sum(s) ==
    IF s = <<>> THEN 0
    ELSE BagCardinality(SubSeq([i \in 1..Len(s) |-> s[i] + 1], 1, Len(s))) - Len(s)

\* the number whose digit k is column[k] < 32768 * 32768
BigOfColumns(column) ==
    IF column = <<>> THEN column
    ELSE BigAdd(SubSeq([k \in 1..Len(column) |-> column[k] % 32768], 1, Len(column)),
                <<0>> \o SubSeq([k \in 1..Len(column) |-> column[k] \div 32768],
                                1, Len(column)))

\* a * b by columns: column k collects the low halves of the limb products
\* of weight k and the high halves of those of weight k - 1.
BigMul(a, b) ==
    IF a = <<>> \/ b = <<>> THEN <<>>
    ELSE BigOfColumns(SubSeq([k \in 1..(Len(a) + Len(b)) |->
                         Sum(SubSeq([i \in 1..Len(a) |->
                                        ((a[i] * Limb(b, k + 1 - i)) % 32768)
                                        + ((a[i] * Limb(b, k - i)) \div 32768)],
                                    1, Len(a)))],
                     1, Len(a) + Len(b)))

BigShl(a, k) ==
    IF a = <<>> THEN a
    ELSE [i \in 1..(k \div 15) |-> 0] \o BigMulSmall(a, 2 ^ (k % 15))

BigShr(a, k) ==
    IF Len(a) <= k \div 15 THEN <<>>
    ELSE BigTrim(SubSeq([i \in 1..(Len(a) - k \div 15) |->
                            (a[i + k \div 15] \div 2 ^ (k % 15))
                            + (Limb(a, i + k \div 15 + 1) % 2 ^ (k % 15))
                              * 2 ^ (15 - (k % 15))],
                        1, Len(a) - k \div 15))

BigLess(a, b) ==
    IF Len(a) # Len(b) THEN Len(a) < Len(b)
    ELSE \E i \in 1..Len(a) :
            a[i] < b[i] /\ \A j \in (i + 1)..Len(a) : a[j] = b[j]

BigBitLen(a) ==
    IF a = <<>> THEN 0
    ELSE 15 * (Len(a) - 1) + CHOOSE n \in 1..15 : 2 ^ (n - 1) <= a[Len(a)] /\ a[Len(a)] < 2 ^ n

\* One step of the long division by b, whose leading limb is at least 16384:
\* the quotient and remainder of 32768 * up.r + limb, given those of the
\* limbs above.  The digit is estimated from the two leading limbs (the
\* estimate is at most 2 too large) and corrected.
BigDivStep(up, limb, b) ==
    LET r2 == BigTrim(<<limb>> \o up.r)
        top == IF Len(r2) > Len(b) THEN r2[Len(r2)] * 32768 + r2[Len(r2) - 1]
               ELSE IF Len(r2) = Len(b) THEN r2[Len(r2)] ELSE 0
        est == IF top \div b[Len(b)] > 32767 THEN 32767 ELSE top \div b[Len(b)]
        d == IF ~BigLess(r2, BigMulSmall(b, est)) THEN est
             ELSE IF ~BigLess(r2, BigMulSmall(b, est - 1)) THEN est - 1
             ELSE est - 2
    IN  IF up.r = <<>> /\ limb = 0 THEN [q |-> BigTrim(<<0>> \o up.q), r |-> <<>>]
        ELSE [q |-> BigTrim(<<d>> \o up.q), r |-> BigSub(r2, BigMulSmall(b, d))]

\* the quotient and the remainder of a by b
RECURSIVE BigDivMod(_, _)
BigDivMod(a, b) ==
    IF Len(a) < Len(b) THEN [q |-> <<>>, r |-> a]
    ELSE BigDivStep(BigDivMod(Tail(a), b), a[1], b)

Float(sgn, m, e) == [sgn |-> sgn, m |-> m, e |-> e]

FZero == Float(1, <<>>, 0)

\* sgn * (q * 2^s + r) * 2^e for a q of 53 bits and r < 2^s, rounded to q or
\* q + 1; sticky says that the exact value lies strictly above
FRoundCut(sgn, q, r, s, e, sticky) ==
    LET half == BigShl(<<1>>, s - 1)
        up == \/ BigLess(half, r)
              \/ r = half /\ (sticky \/ q[1] % 2 = 1)
    IN  IF q = <<>> \/ ~up THEN Float(sgn, q, e + s)
        ELSE IF BigBitLen(BigAdd(q, <<1>>)) = 54
        THEN Float(sgn, BigShr(BigAdd(q, <<1>>), 1), e + s + 1)
        ELSE Float(sgn, BigAdd(q, <<1>>), e + s)

\* sgn * m * 2^e rounded to 53 bits; sticky says that the exact value lies
\* strictly above m * 2^e (and below (m + 1) * 2^e).
FRound(sgn, m, e, sticky) ==
    IF m = <<>> THEN FZero
    ELSE IF BigBitLen(m) <= 53
    THEN Float(sgn, BigShl(m, 53 - BigBitLen(m)), e - (53 - BigBitLen(m)))
    ELSE FRoundCut(sgn, BigShr(m, BigBitLen(m) - 53),
                   BigSub(m, BigShl(BigShr(m, BigBitLen(m) - 53), BigBitLen(m) - 53)),
                   BigBitLen(m) - 53, e, sticky)

\* float(i * 2^e) for an integer i
FOfInt(i, e) == FRound(IF i < 0 THEN -1 ELSE 1, BigOfNat(IF i < 0 THEN 0 - i ELSE i), e, FALSE)

FNeg(x) == IF x.m = <<>> THEN x ELSE Float(0 - x.sgn, x.m, x.e)

FAdd(x, y) ==
    LET e == IF x.e < y.e THEN x.e ELSE y.e
        ax == BigShl(x.m, x.e - e)
        ay == BigShl(y.m, y.e - e)
    IN  IF x.m = <<>> THEN y
        ELSE IF y.m = <<>> THEN x
        ELSE IF x.sgn = y.sgn THEN FRound(x.sgn, BigAdd(ax, ay), e, FALSE)
        ELSE IF ax = ay THEN FZero
        ELSE IF BigLess(ax, ay) THEN FRound(y.sgn, BigSub(ay, ax), e, FALSE)
        ELSE FRound(x.sgn, BigSub(ax, ay), e, FALSE)

FSub(x, y) == FAdd(x, FNeg(y))

FMul(x, y) == FRound(x.sgn * y.sgn, BigMul(x.m, y.m), x.e + y.e, FALSE)

\* x / y for y # 0: 60 quotient bits and more, the remainder as sticky bit;
\* the 53 bits of y are moved up to fill its leading limb
FDiv(x, y) ==
    LET d == BigDivMod(BigShl(x.m, 67), BigShl(y.m, 7))
    IN  IF x.m = <<>> THEN FZero
        ELSE FRound(x.sgn * y.sgn, d.q, x.e - y.e - 60, d.r # <<>>)

\* x < num / den for a float x >= 0 and magnitudes num and den # 0, exactly
FLessRatio(x, num, den) ==
    IF x.e >= 0 THEN BigLess(BigShl(BigMul(x.m, den), x.e), num)
    ELSE BigLess(BigMul(x.m, den), BigShl(num, 0 - x.e))

\* x ** n for x > 0 and an integer n >= 0, correctly rounded: the power is
\* formed by repeated squaring on 105 bits, cut off below, and the cut-off
\* is the sticky bit.
FPowMul(p, q) ==
    LET m == BigMul(p.m, q.m)
        s == BigBitLen(m) - 105
    IN  IF p.cut /\ q.cut /\ s <= 0 THEN [m |-> m, e |-> p.e + q.e, cut |-> TRUE]
        ELSE IF s <= 0 THEN [m |-> m, e |-> p.e + q.e, cut |-> p.cut \/ q.cut]
        ELSE [m |-> BigShr(m, s), e |-> p.e + q.e + s,
              cut |-> p.cut \/ q.cut \/ BigShl(BigShr(m, s), s) # m]

\* h * h, times x for an odd exponent
FPowStep(h, x, odd) ==
    IF h.m = <<1>> /\ h.e = 0 /\ ~odd THEN h
    ELSE IF odd THEN FPowMul(FPowMul(h, h), [m |-> x.m, e |-> x.e, cut |-> FALSE])
    ELSE FPowMul(h, h)

RECURSIVE FPowExt(_, _)
FPowExt(x, n) ==
    IF n = 0 THEN [m |-> <<1>>, e |-> 0, cut |-> FALSE]
    ELSE FPowStep(FPowExt(x, n \div 2), x, n % 2 = 1)

FPow(x, n) ==
    LET p == FPowExt(x, n)
    IN  FRound(1, p.m, p.e, p.cut)

\* The Python functions and float operations that the statements below call
\* are entered through Call, by name.
RECURSIVE Call(_, _)

\* float(i), x + y, x - y, x * y, x / y, x ** n, x < y
float(i) == Call("float", <<i>>)

add(x, y) == Call("add", <<x, y>>)

sub(x, y) == Call("sub", <<x, y>>)

mul(x, y) == Call("mul", <<x, y>>)

truediv(x, y) == Call("truediv", <<x, y>>)

pow(x, n) == Call("pow", <<x, n>>)

lt(x, y) == Call("lt", <<x, y>>)

\* calculate_mortgage_payment_interest_free: the principal spread over the
\* payments, whatever the rate
calculate_mortgage_payment_interest_free(principal, annual_rate_percent, term_years) ==
    IF principal <= 0 \/ term_years <= 0 THEN Value(FZero)
    ELSE Value(FDiv(FOfInt(principal, 0), FOfInt(term_years * 12, 0)))

\* calculate_mortgage_payment as Python computes it: principal and term_years
\* are ints, annual_rate_percent is a float, every operation rounds
calculate_mortgage_payment_binary64(principal, annual_rate_percent, term_years) ==
    IF principal <= 0 THEN Value(FZero)
    ELSE LET monthly_rate == truediv(truediv(annual_rate_percent, float(100)), float(12))
             num_payments == term_years * 12
             growth == pow(add(float(1), monthly_rate), num_payments)
             denominator == sub(growth, float(1))
         IN  IF monthly_rate = FZero
             THEN IF num_payments > 0
                  THEN Value(truediv(float(principal), float(num_payments)))
                  ELSE Value(FZero)
             ELSE IF denominator = FZero THEN Raise("ZeroDivisionError")
             ELSE Value(truediv(mul(float(principal), mul(monthly_rate, growth)),
                             denominator))

RECURSIVE SumAnnualReserve(_, _)
SumAnnualReserve(components, k) ==
    IF k = 0 THEN R(0)
    ELSE RAdd(SumAnnualReserve(components, k - 1), components[k].annual_reserve)

\* ComponentReserve_without_age: the cost is adjusted for the condition only
ComponentReserve_without_age(details, sqft, age_mult, cond_mult) ==
    LET adj_lifespan == RMul(R(details.lifespan), RDiv(R(1), cond_mult))
        repl_cost == RAdd(IF details.cost_per_sqft # None /\ sqft # None /\ RLt(R(0), sqft)
                          THEN RMul(details.cost_per_sqft, sqft) ELSE R(0),
                          IF details.cost_base # None THEN details.cost_base ELSE R(0))
        adj_cost == RMul(repl_cost, cond_mult)
    IN  [name |-> details.name, replacement_cost |-> adj_cost,
         lifespan_years |-> adj_lifespan, annual_reserve |-> RDiv(adj_cost, adj_lifespan),
         monthly_reserve |-> RDiv(RDiv(adj_cost, adj_lifespan), R(12))]

\* one pass of the loop over CAPEX_COMPONENTS
ComponentReserve(details, sqft, age_mult, cond_mult) ==
    LET adj_lifespan == RMul(R(details.lifespan), RDiv(R(1), cond_mult))
        sqft_cost == IF sqft # None /\ RLt(R(0), sqft)
                     THEN RMul(details.cost_per_sqft, sqft) ELSE R(0)
        repl_cost == IF details.cost_per_sqft # None
                     THEN IF details.cost_base # None
                          THEN RAdd(sqft_cost, details.cost_base) ELSE sqft_cost
                     ELSE IF details.cost_base # None THEN details.cost_base ELSE R(0)
        adj_cost == RMul(RMul(repl_cost, cond_mult), age_mult)
        annual_res == IF RLt(R(0), adj_lifespan) THEN RDiv(adj_cost, adj_lifespan) ELSE R(0)
    IN  [name |-> details.name, replacement_cost |-> adj_cost,
         lifespan_years |-> adj_lifespan, annual_reserve |-> annual_res,
         monthly_reserve |-> RDiv(annual_res, R(12))]

calculate_capex_reserves(purchase_price, sqft, age, condition) ==
    LET age_mult == get_age_multiplier(age)
        cond_mult == ConditionMultiplier(condition)
        components == [k \in 1..Len(CAPEX_COMPONENTS) |->
                          ComponentReserve(CAPEX_COMPONENTS[k], sqft, age_mult, cond_mult)]
        total_annual == SumAnnualReserve(components, Len(components))
    IN  [components |-> components,
         total_annual |-> total_annual,
         total_monthly |-> RDiv(total_annual, R(12)),
         percent_of_value |->
             IF RLt(R(0), purchase_price)
             THEN RMul(RDiv(total_annual, purchase_price), R(100)) ELSE R(0)]

\* the value of a field the result reports only in dynamic mode
OnlyIf(flag, v, otherwise) == IF flag THEN v ELSE otherwise

\* the down payment without the floor at 0
clamped_dp_amount_no_floor(purchase_price, down_payment_dollars) ==
    IF RLt(purchase_price, down_payment_dollars) THEN purchase_price
    ELSE down_payment_dollars

\* dp_amount: the down payment brought into [0, purchase_price]
clamped_dp_amount(purchase_price, down_payment_dollars) ==
    IF RLt(purchase_price, down_payment_dollars) THEN purchase_price
    ELSE IF RLt(down_payment_dollars, R(0)) THEN R(0)
    ELSE down_payment_dollars

\* the total without the utilities
summed_total_monthly_exp_no_utilities(p_and_i, monthly_tax, monthly_ins, misc_monthly, dyn, monthly_prop_mgmt, monthly_maint, monthly_capex_val, utilities_monthly) ==
    LET base_exp == RAdd(RAdd(RAdd(p_and_i, monthly_tax), monthly_ins), misc_monthly)
    IN  IF dyn
        THEN RAdd(base_exp, RAdd(RAdd(monthly_prop_mgmt, monthly_maint), monthly_capex_val))
        ELSE base_exp

\* total_monthly_exp: the base expenses, then += the dynamic-mode expenses
summed_total_monthly_exp(p_and_i, monthly_tax, monthly_ins, misc_monthly, dyn, monthly_prop_mgmt, monthly_maint, monthly_capex_val, utilities_monthly) ==
    LET base_exp == RAdd(RAdd(RAdd(p_and_i, monthly_tax), monthly_ins), misc_monthly)
    IN  IF dyn
        THEN RAdd(base_exp,
                  RAdd(RAdd(RAdd(monthly_prop_mgmt, monthly_maint), monthly_capex_val),
                       utilities_monthly))
        ELSE base_exp

\* calculate_financial_components, the part every mode runs: the rent, the down
\* payment and the loan, P&I, taxes and insurance
financing_components(a) ==
    LET dp_amount == clamped_dp_amount(a.purchase_price, a.down_payment_dollars)
        annual_tax == parse_tax_amount(a.tax_info_raw)
    IN  [eff_rent |-> IF a.est_monthly_rent # None THEN a.est_monthly_rent ELSE R(0),
         dp_amount |-> dp_amount,
         loan_amt |-> RSub(a.purchase_price, dp_amount),
         dp_pct |-> RMul(RDiv(dp_amount, a.purchase_price), R(100)),
         payment |-> calculate_mortgage_payment(RSub(a.purchase_price, dp_amount),
                                                a.annual_rate_percent, a.loan_term_years),
         annual_tax |-> annual_tax,
         monthly_tax |-> IF annual_tax # None THEN RDiv(annual_tax, R(12)) ELSE R(0),
         monthly_ins |-> IF a.annual_insurance # None THEN RDiv(a.annual_insurance, R(12))
                         ELSE R(0)]

\* calculate_financial_components, the defaults and the `if use_dynamic_capex:`
\* block; f is what financing_components computed
dynamic_components(a, f) ==
    IF a.use_dynamic_capex
    THEN LET eff_rent_after_vacancy ==
                 RMul(f.eff_rent, RSub(R(1), RDiv(a.vacancy_rate_pct, R(100))))
             adj_maint_pct == RMul(RMul(a.maintenance_pct, get_age_multiplier(a.prop_age)),
                                   ConditionMultiplier(a.prop_cond))
         IN  [eff_rent_after_vacancy |-> eff_rent_after_vacancy,
              monthly_prop_mgmt |->
                  RMul(eff_rent_after_vacancy, RDiv(a.property_mgmt_fee_pct, R(100))),
              adj_maint_pct |-> adj_maint_pct,
              monthly_maint |->
                  RDiv(RMul(a.purchase_price, RDiv(adj_maint_pct, R(100))), R(12)),
              capex_details |-> calculate_capex_reserves(a.purchase_price, a.sq_ft,
                                                         a.prop_age, a.prop_cond)]
    ELSE [eff_rent_after_vacancy |-> f.eff_rent, monthly_prop_mgmt |-> R(0),
          adj_maint_pct |-> a.maintenance_pct, monthly_maint |-> R(0),
          capex_details |-> None]

\* monthly_capex_val
capex_of(a, d) == IF a.use_dynamic_capex THEN d.capex_details.total_monthly ELSE R(0)

\* net_monthly_cashflow, annual_cashflow and cash_on_cash_roi from the total
cashflow_of(a, f, d, total_monthly_exp) ==
    [total_monthly_exp |-> total_monthly_exp,
     net_monthly_cashflow |-> RSub(d.eff_rent_after_vacancy, total_monthly_exp),
     annual_cashflow |-> RMul(RSub(d.eff_rent_after_vacancy, total_monthly_exp), R(12))]

\* annual_noi and cap_rate from the operating expenses of one month
noi_of_with_monthly_expenses(a, d, op_expenses_annual) ==
    [annual_noi |-> RSub(RMul(d.eff_rent_after_vacancy, R(12)),
                         RDiv(op_expenses_annual, R(12))),
     cap_rate |-> RMul(RDiv(RSub(RMul(d.eff_rent_after_vacancy, R(12)),
                                 RDiv(op_expenses_annual, R(12))),
                            a.purchase_price), R(100))]

\* annual_noi and cap_rate from the operating expenses
noi_of(a, d, op_expenses_annual) ==
    [annual_noi |-> RSub(RMul(d.eff_rent_after_vacancy, R(12)), op_expenses_annual),
     cap_rate |-> RMul(RDiv(RSub(RMul(d.eff_rent_after_vacancy, R(12)), op_expenses_annual),
                            a.purchase_price), R(100))]

\* the dict calculate_financial_components returns; c is what cashflow_of
\* computed, n what noi_of computed
components_dict(a, f, d, c, n) ==
    LET dyn == a.use_dynamic_capex
    IN  [raised |-> "",
         purchase_price |-> a.purchase_price, down_payment_amount |-> f.dp_amount,
         down_payment_percentage |-> f.dp_pct, loan_amount |-> f.loan_amt,
         annual_interest_rate_percent |-> a.annual_rate_percent,
         loan_term_years |-> a.loan_term_years,
         annual_insurance_cost |-> a.annual_insurance, misc_monthly_cost |-> a.misc_monthly,
         tax_info_raw |-> a.tax_info_raw, estimated_monthly_rent |-> f.eff_rent,
         monthly_p_and_i |-> f.payment.v, annual_taxes |-> f.annual_tax,
         monthly_taxes |-> f.monthly_tax, monthly_insurance |-> f.monthly_ins,
         vacancy_rate_percent |-> OnlyIf(dyn, a.vacancy_rate_pct, None),
         effective_rent_after_vacancy |-> d.eff_rent_after_vacancy,
         property_mgmt_fee_percent |-> OnlyIf(dyn, a.property_mgmt_fee_pct, None),
         monthly_property_mgmt |-> OnlyIf(dyn, d.monthly_prop_mgmt, R(0)),
         maintenance_percent |-> a.maintenance_pct,
         adjusted_maintenance_percent |-> OnlyIf(dyn, d.adj_maint_pct, None),
         monthly_maintenance |-> OnlyIf(dyn, d.monthly_maint, R(0)),
         capex_percent |-> a.capex_pct,
         adjusted_capex_percent |->
             IF dyn THEN d.capex_details.percent_of_value ELSE None,
         monthly_capex |-> OnlyIf(dyn, capex_of(a, d), R(0)),
         capex_reserve_details |-> d.capex_details,
         utilities_monthly |-> OnlyIf(dyn, a.utilities_monthly, R(0)),
         total_monthly_expenses |-> c.total_monthly_exp,
         net_monthly_cashflow |-> c.net_monthly_cashflow,
         annual_cashflow |-> c.annual_cashflow,
         cash_on_cash_roi |-> IF RLt(R(0), f.dp_amount)
                              THEN RMul(RDiv(c.annual_cashflow, f.dp_amount), R(100))
                              ELSE R(0),
         annual_noi |-> IF dyn THEN n.annual_noi ELSE None,
         cap_rate |-> IF dyn THEN n.cap_rate ELSE None,
         property_age |-> a.prop_age, property_condition |-> a.prop_cond,
         square_feet |-> a.sq_ft, use_dynamic_capex |-> dyn]

\* calculate_financial_components once the dynamic-mode block has run: the
\* totals, the cashflow, NOI and the returned dict
totals_and_dict(a, f, d) ==
    components_dict(a, f, d,
        cashflow_of(a, f, d,
            summed_total_monthly_exp(f.payment.v, f.monthly_tax, f.monthly_ins,
                                     a.misc_monthly, a.use_dynamic_capex,
                                     d.monthly_prop_mgmt, d.monthly_maint, capex_of(a, d),
                                     a.utilities_monthly)),
        noi_of(a, d,
            RMul(RAdd(RAdd(RAdd(RAdd(RAdd(RAdd(f.monthly_tax, f.monthly_ins),
                                          d.monthly_prop_mgmt), d.monthly_maint),
                                capex_of(a, d)), a.utilities_monthly), a.misc_monthly),
                 R(12))))

\* calculate_financial_components once the financing part has run; the
\* exception calculate_mortgage_payment raised leaves the function
after_financing(a, f) ==
    IF f.payment.raised # "" THEN [raised |-> f.payment.raised]
    ELSE totals_and_dict(a, f, dynamic_components(a, f))

\* calculate_financial_components_default_price: a missing or non-positive
\* price is replaced by a price of 1 and the computation goes on
calculate_financial_components_default_price(a) ==
    IF a.purchase_price = None \/ RLe(a.purchase_price, R(0))
    THEN after_financing([a EXCEPT !.purchase_price = R(1)],
                         financing_components([a EXCEPT !.purchase_price = R(1)]))
    ELSE after_financing(a, financing_components(a))

\* calculate_financial_components of appreciation_and_cashflow_analyzer.py:
\* None, [raised |-> exception] or the returned dict (raised = "")
calculate_financial_components(a) ==
    IF a.purchase_price = None \/ RLe(a.purchase_price, R(0)) THEN None
    ELSE after_financing(a, financing_components(a))

-----------------------------------------------------------------------------
(* The variant of modified_cashflow_analyzer.py; its get_age_multiplier,        *)
(* CONDITION_MULTIPLIERS, CAPEX_COMPONENTS, parse_tax_amount and                *)
(* calculate_mortgage_payment compute what the ones above compute.              *)

\* one pass of the loop over CAPEX_COMPONENTS; square_feet is used unguarded
modified_ComponentReserve(details, square_feet, age_multiplier, condition_multiplier) ==
    LET adjusted_lifespan == RMul(R(details.lifespan), RDiv(R(1), condition_multiplier))
        replacement_cost ==
            IF details.cost_per_sqft # None
            THEN IF details.cost_base # None
                 THEN RAdd(RMul(details.cost_per_sqft, square_feet), details.cost_base)
                 ELSE RMul(details.cost_per_sqft, square_feet)
            ELSE details.cost_base
        adjusted_cost == RMul(RMul(replacement_cost, condition_multiplier), age_multiplier)
        annual_reserve == RDiv(adjusted_cost, adjusted_lifespan)
    IN  [name |-> details.name, replacement_cost |-> adjusted_cost,
         lifespan_years |-> adjusted_lifespan, annual_reserve |-> annual_reserve,
         monthly_reserve |-> RDiv(annual_reserve, R(12))]

\* the returned dict, or the TypeError of None * float
modified_calculate_capex_reserves(purchase_price, square_feet, property_age, property_condition) ==
    IF square_feet = None THEN [raised |-> "TypeError"]
    ELSE
    LET age_multiplier == get_age_multiplier(property_age)
        condition_multiplier == ConditionMultiplier(property_condition)
        component_reserves ==
            [k \in 1..Len(CAPEX_COMPONENTS) |->
                modified_ComponentReserve(CAPEX_COMPONENTS[k], square_feet, age_multiplier,
                                          condition_multiplier)]
        total_annual_reserve == SumAnnualReserve(component_reserves, Len(component_reserves))
    IN  [raised |-> "",
         components |-> component_reserves,
         total_annual |-> total_annual_reserve,
         total_monthly |-> RDiv(total_annual_reserve, R(12)),
         percent_of_value |->
             IF RLt(R(0), purchase_price)
             THEN RMul(RDiv(total_annual_reserve, purchase_price), R(100)) ELSE R(0)]

\* modified calculate_financial_components, steps 1 to 4: the rent, the down
\* payment and the loan set branch by branch, P&I, taxes and insurance
modified_financing_components(a) ==
    LET above == RLt(a.purchase_price, a.down_payment_dollars)
        negative == RLt(a.down_payment_dollars, R(0))
        down_payment_amount == IF above THEN a.purchase_price
                               ELSE IF negative THEN R(0) ELSE a.down_payment_dollars
        loan_amount == IF above THEN R(0)
                       ELSE IF negative THEN a.purchase_price
                       ELSE RSub(a.purchase_price, a.down_payment_dollars)
        annual_taxes == parse_tax_amount(a.tax_info_raw)
    IN  [effective_rent |-> IF a.est_monthly_rent = None THEN R(0) ELSE a.est_monthly_rent,
         down_payment_amount |-> down_payment_amount,
         loan_amount |-> loan_amount,
         down_payment_percentage |->
             RMul(RDiv(down_payment_amount, a.purchase_price), R(100)),
         payment |-> calculate_mortgage_payment(loan_amount, a.annual_rate_percent,
                                                a.loan_term_years),
         annual_taxes |-> annual_taxes,
         monthly_taxes |-> IF annual_taxes # None THEN RDiv(annual_taxes, R(12)) ELSE R(0),
         monthly_insurance |-> IF a.annual_insurance # None
                               THEN RDiv(a.annual_insurance, R(12)) ELSE R(0)]

\* modified calculate_financial_components, steps 5 to 8
modified_dynamic_components(a, f) ==
    IF a.use_dynamic_capex
    THEN LET effective_rent_after_vacancy ==
                 RMul(f.effective_rent, RSub(R(1), RDiv(a.vacancy_rate_pct, R(100))))
             adjusted_maintenance_percent ==
                 RMul(RMul(a.maintenance_pct, get_age_multiplier(a.prop_age)),
                      ConditionMultiplier(a.prop_cond))
         IN  [effective_rent_after_vacancy |-> effective_rent_after_vacancy,
              monthly_property_mgmt |->
                  RMul(effective_rent_after_vacancy, RDiv(a.property_mgmt_fee_pct, R(100))),
              adjusted_maintenance_percent |-> adjusted_maintenance_percent,
              monthly_maintenance |->
                  RDiv(RMul(a.purchase_price, RDiv(adjusted_maintenance_percent, R(100))),
                       R(12)),
              capex_reserve |-> modified_calculate_capex_reserves(a.purchase_price, a.sq_ft,
                                                                  a.prop_age, a.prop_cond)]
    ELSE [effective_rent_after_vacancy |-> f.effective_rent,
          monthly_property_mgmt |-> R(0),
          adjusted_maintenance_percent |-> a.maintenance_pct,
          monthly_maintenance |-> R(0),
          capex_reserve |-> None]

\* monthly_capex
modified_capex_of(a, d) ==
    IF a.use_dynamic_capex THEN d.capex_reserve.total_monthly ELSE R(0)

\* step 9: the total, summed in one expression in dynamic mode
modified_total_monthly_expenses(a, f, d) ==
    LET base_expenses == RAdd(RAdd(RAdd(f.payment.v, f.monthly_taxes), f.monthly_insurance),
                              a.misc_monthly)
    IN  IF a.use_dynamic_capex
        THEN RAdd(RAdd(RAdd(RAdd(base_expenses, d.monthly_property_mgmt),
                            d.monthly_maintenance), modified_capex_of(a, d)),
                  a.utilities_monthly)
        ELSE base_expenses

\* steps 10 and 11: net_monthly_cashflow and annual_cashflow from the total
modified_cashflow_of(a, f, d, total_monthly_expenses) ==
    [total_monthly_expenses |-> total_monthly_expenses,
     net_monthly_cashflow |->
         IF a.use_dynamic_capex
         THEN RSub(d.effective_rent_after_vacancy, total_monthly_expenses)
         ELSE RSub(f.effective_rent, total_monthly_expenses),
     annual_cashflow |->
         RMul(IF a.use_dynamic_capex
              THEN RSub(d.effective_rent_after_vacancy, total_monthly_expenses)
              ELSE RSub(f.effective_rent, total_monthly_expenses), R(12))]

\* step 12: annual_noi
modified_annual_noi(a, f, d) ==
    RSub(RMul(d.effective_rent_after_vacancy, R(12)),
         RMul(RAdd(RAdd(RAdd(RAdd(RAdd(RAdd(f.monthly_insurance, f.monthly_taxes),
                                        d.monthly_property_mgmt),
                                   d.monthly_maintenance), modified_capex_of(a, d)),
                        a.utilities_monthly), a.misc_monthly), R(12)))

\* the dict modified calculate_financial_components returns; c is what
\* modified_cashflow_of computed
modified_components_dict(a, f, d, c, annual_noi) ==
    LET dyn == a.use_dynamic_capex
    IN  [raised |-> "",
         purchase_price |-> a.purchase_price,
         down_payment_amount |-> f.down_payment_amount,
         down_payment_percentage |-> f.down_payment_percentage,
         loan_amount |-> f.loan_amount,
         annual_interest_rate_percent |-> a.annual_rate_percent,
         loan_term_years |-> a.loan_term_years,
         annual_insurance_cost |-> a.annual_insurance, misc_monthly_cost |-> a.misc_monthly,
         tax_info_raw |-> a.tax_info_raw, estimated_monthly_rent |-> f.effective_rent,
         monthly_p_and_i |-> f.payment.v, annual_taxes |-> f.annual_taxes,
         monthly_taxes |-> f.monthly_taxes, monthly_insurance |-> f.monthly_insurance,
         vacancy_rate_percent |-> OnlyIf(dyn, a.vacancy_rate_pct, None),
         effective_rent_after_vacancy |->
             OnlyIf(dyn, d.effective_rent_after_vacancy, f.effective_rent),
         property_mgmt_fee_percent |-> OnlyIf(dyn, a.property_mgmt_fee_pct, None),
         monthly_property_mgmt |-> OnlyIf(dyn, d.monthly_property_mgmt, None),
         maintenance_percent |-> OnlyIf(dyn, a.maintenance_pct, None),
         adjusted_maintenance_percent |-> OnlyIf(dyn, d.adjusted_maintenance_percent, None),
         monthly_maintenance |-> OnlyIf(dyn, d.monthly_maintenance, None),
         capex_percent |-> OnlyIf(dyn, a.capex_pct, None),
         adjusted_capex_percent |->
             IF dyn THEN d.capex_reserve.percent_of_value ELSE None,
         monthly_capex |-> OnlyIf(dyn, modified_capex_of(a, d), None),
         capex_reserve |-> d.capex_reserve,
         utilities_monthly |-> OnlyIf(dyn, a.utilities_monthly, None),
         total_monthly_expenses |-> c.total_monthly_expenses,
         net_monthly_cashflow |-> c.net_monthly_cashflow,
         annual_cashflow |-> c.annual_cashflow,
         cash_on_cash_roi |-> IF RLt(R(0), f.down_payment_amount)
                              THEN RMul(RDiv(c.annual_cashflow, f.down_payment_amount),
                                        R(100))
                              ELSE R(0),
         annual_noi |-> IF dyn THEN annual_noi ELSE None,
         cap_rate |-> IF dyn THEN RMul(RDiv(annual_noi, a.purchase_price), R(100))
                      ELSE None,
         property_age |-> OnlyIf(dyn, a.prop_age, None),
         property_condition |-> OnlyIf(dyn, a.prop_cond, None),
         square_feet |-> OnlyIf(dyn, a.sq_ft, None),
         use_dynamic_capex |-> dyn]

\* modified calculate_financial_components once steps 5 to 8 have run; the
\* TypeError calculate_capex_reserves raised leaves the function
modified_totals_and_dict(a, f, d) ==
    IF a.use_dynamic_capex /\ d.capex_reserve.raised # ""
    THEN [raised |-> d.capex_reserve.raised]
    ELSE modified_components_dict(a, f, d,
             modified_cashflow_of(a, f, d, modified_total_monthly_expenses(a, f, d)),
             modified_annual_noi(a, f, d))

\* modified calculate_financial_components once steps 1 to 4 have run; the
\* exception calculate_mortgage_payment raised leaves the function
modified_after_financing(a, f) ==
    IF f.payment.raised # "" THEN [raised |-> f.payment.raised]
    ELSE modified_totals_and_dict(a, f, modified_dynamic_components(a, f))

\* calculate_financial_components of modified_cashflow_analyzer.py: None,
\* [raised |-> exception] or the returned dict (raised = "")
modified_calculate_financial_components(a) ==
    IF a.purchase_price = None \/ RLe(a.purchase_price, R(0)) THEN None
    ELSE modified_after_financing(a, modified_financing_components(a))

-----------------------------------------------------------------------------
(* The variant of cashflow_analyzer.py: no dynamic mode; its steps 1 to 4 are,  *)
(* line for line, those of modified_cashflow_analyzer.py, and its               *)
(* parse_tax_amount and calculate_mortgage_payment compute what the ones above  *)
(* compute.                                                                     *)

\* steps 5 and 6 and the returned dict; f is what steps 1 to 4 computed
basic_components_dict(a, f) ==
    IF f.payment.raised # "" THEN [raised |-> f.payment.raised]
    ELSE [raised |-> "",
          purchase_price |-> a.purchase_price,
          down_payment_amount |-> f.down_payment_amount,
          down_payment_percentage |-> f.down_payment_percentage,
          loan_amount |-> f.loan_amount,
          annual_interest_rate_percent |-> a.annual_rate_percent,
          loan_term_years |-> a.loan_term_years,
          annual_insurance_cost |-> a.annual_insurance,
          misc_monthly_cost |-> a.misc_monthly,
          tax_info_raw |-> a.tax_info_raw,
          estimated_monthly_rent |-> f.effective_rent,
          monthly_p_and_i |-> f.payment.v,
          annual_taxes |-> f.annual_taxes,
          monthly_taxes |-> f.monthly_taxes,
          monthly_insurance |-> f.monthly_insurance,
          total_monthly_expenses |->
              RAdd(RAdd(RAdd(f.payment.v, f.monthly_taxes), f.monthly_insurance),
                   a.misc_monthly),
          net_monthly_cashflow |->
              RSub(f.effective_rent,
                   RAdd(RAdd(RAdd(f.payment.v, f.monthly_taxes), f.monthly_insurance),
                        a.misc_monthly))]

\* calculate_financial_components of cashflow_analyzer.py that also turns
\* down a listing without a rent
basic_calculate_financial_components_requiring_rent(a) ==
    IF a.purchase_price = None \/ RLe(a.purchase_price, R(0)) THEN None
    ELSE IF a.est_monthly_rent = None THEN None
    ELSE basic_components_dict(a, modified_financing_components(a))

\* calculate_financial_components of cashflow_analyzer.py: None,
\* [raised |-> exception] or the returned dict (raised = "")
basic_calculate_financial_components(a) ==
    IF a.purchase_price = None \/ RLe(a.purchase_price, R(0)) THEN None
    ELSE basic_components_dict(a, modified_financing_components(a))

-----------------------------------------------------------------------------
(* calculate_financial_components as Python computes it, in binary64: the     *)
(* price, down payment, percentages and monthly costs of a call are whole     *)
(* numbers, the rate, the rent, the insurance and the square feet are floats  *)
(* (or None), and every operation rounds.  An int and the float of the same   *)
(* value behave alike.  The price of these calls is never None.               *)

\* x < y
FLess(x, y) == FSub(x, y).sgn = -1

\* the float a decimal literal denotes, from its exact value
FOfRat(r) == truediv(float(r.n), float(r.d))

\* x / 100
Percent(x) == truediv(x, float(100))

\* one pass of the loop over CAPEX_COMPONENTS; sqft is None unless `sqft and sqft > 0`
ComponentReserve_binary64(details, sqft, age_mult, cond_mult) ==
    LET adj_lifespan == mul(float(details.lifespan), truediv(float(1), cond_mult))
        sqft_cost == IF sqft # None THEN mul(FOfRat(details.cost_per_sqft), sqft) ELSE FZero
        repl_cost == IF details.cost_per_sqft # None
                     THEN IF details.cost_base # None
                          THEN add(sqft_cost, FOfRat(details.cost_base)) ELSE sqft_cost
                     ELSE IF details.cost_base # None THEN FOfRat(details.cost_base)
                     ELSE FZero
        adj_cost == mul(mul(repl_cost, cond_mult), age_mult)
        annual_res == IF lt(FZero, adj_lifespan) THEN truediv(adj_cost, adj_lifespan)
                      ELSE FZero
    IN  [name |-> details.name, replacement_cost |-> adj_cost,
         lifespan_years |-> adj_lifespan, annual_reserve |-> annual_res,
         monthly_reserve |-> truediv(annual_res, float(12))]

\* reserves["total_annual"] after k passes of the loop
RECURSIVE SumAnnualReserve_binary64(_, _)
SumAnnualReserve_binary64(components, k) ==
    IF k = 0 THEN FZero
    ELSE add(SumAnnualReserve_binary64(components, k - 1), components[k].annual_reserve)

\* calculate_capex_reserves for a price > 0
calculate_capex_reserves_binary64(purchase_price, sqft, age, condition) ==
    LET age_mult == FOfRat(get_age_multiplier(age))
        cond_mult == FOfRat(ConditionMultiplier(condition))
        area == IF sqft # None /\ lt(FZero, sqft) THEN sqft ELSE None
        components == SubSeq([k \in 1..Len(CAPEX_COMPONENTS) |->
                                 ComponentReserve_binary64(CAPEX_COMPONENTS[k], area,
                                                           age_mult, cond_mult)],
                             1, Len(CAPEX_COMPONENTS))
        total_annual == SumAnnualReserve_binary64(components, Len(components))
    IN  [components |-> components,
         total_annual |-> total_annual,
         total_monthly |-> truediv(total_annual, float(12)),
         percent_of_value |->
             mul(truediv(total_annual, float(purchase_price)), float(100))]

\* the part every mode and every variant runs: the rent, the down payment and
\* the loan, P&I, taxes and insurance
financing_components_binary64(a) ==
    LET dp_amount == IF a.down_payment_dollars > a.purchase_price THEN a.purchase_price
                     ELSE IF a.down_payment_dollars < 0 THEN 0
                     ELSE a.down_payment_dollars
        annual_tax == parse_tax_amount(a.tax_info_raw)
    IN  [eff_rent |-> IF a.est_monthly_rent # None THEN a.est_monthly_rent ELSE FZero,
         dp_amount |-> dp_amount,
         loan_amt |-> a.purchase_price - dp_amount,
         dp_pct |-> mul(truediv(float(dp_amount), float(a.purchase_price)),
                         float(100)),
         payment |-> calculate_mortgage_payment_binary64(a.purchase_price - dp_amount,
                         a.annual_rate_percent, a.loan_term_years),
         annual_tax |-> IF annual_tax # None THEN FOfRat(annual_tax) ELSE None,
         monthly_tax |-> IF annual_tax # None THEN truediv(FOfRat(annual_tax), float(12))
                         ELSE FZero,
         monthly_ins |-> IF a.annual_insurance # None
                         THEN truediv(a.annual_insurance, float(12))
                         ELSE FZero,
         base_exp |-> FZero]

\* p_and_i + monthly_tax + monthly_ins + misc_monthly
base_expenses_binary64(a, f) ==
    [f EXCEPT !.base_exp = add(add(add(f.payment.v, f.monthly_tax), f.monthly_ins),
                                float(a.misc_monthly))]

\* the defaults and the `if use_dynamic_capex:` block
dynamic_components_binary64(a, f) ==
    IF a.use_dynamic_capex
    THEN LET eff_rent_after_vacancy ==
                 mul(f.eff_rent, sub(float(1), Percent(float(a.vacancy_rate_pct))))
             adj_maint_pct ==
                 mul(mul(float(a.maintenance_pct), FOfRat(get_age_multiplier(a.prop_age))),
                      FOfRat(ConditionMultiplier(a.prop_cond)))
             capex_details == calculate_capex_reserves_binary64(a.purchase_price, a.sq_ft,
                                                                a.prop_age, a.prop_cond)
         IN  [eff_rent_after_vacancy |-> eff_rent_after_vacancy,
              monthly_prop_mgmt |->
                  mul(eff_rent_after_vacancy, Percent(float(a.property_mgmt_fee_pct))),
              adj_maint_pct |-> adj_maint_pct,
              monthly_maint |->
                  truediv(mul(float(a.purchase_price), Percent(adj_maint_pct)),
                       float(12)),
              monthly_capex_val |-> capex_details.total_monthly,
              adj_capex_pct |-> capex_details.percent_of_value,
              capex_details |-> capex_details]
    ELSE [eff_rent_after_vacancy |-> f.eff_rent, monthly_prop_mgmt |-> FZero,
          adj_maint_pct |-> float(a.maintenance_pct), monthly_maint |-> FZero,
          monthly_capex_val |-> FZero, adj_capex_pct |-> float(a.capex_pct),
          capex_details |-> None]

\* total_monthly_exp, the cashflow and NOI
totals_binary64(a, f, d) ==
    LET dyn == a.use_dynamic_capex
        total_monthly_exp ==
            IF dyn
            THEN add(f.base_exp,
                      add(add(add(d.monthly_prop_mgmt, d.monthly_maint),
                                d.monthly_capex_val), float(a.utilities_monthly)))
            ELSE f.base_exp
        net_monthly_cashflow == sub(d.eff_rent_after_vacancy, total_monthly_exp)
        annual_cashflow == mul(net_monthly_cashflow, float(12))
        op_expenses_annual ==
            mul(add(add(add(add(add(add(f.monthly_tax, f.monthly_ins),
                                          d.monthly_prop_mgmt), d.monthly_maint),
                                d.monthly_capex_val), float(a.utilities_monthly)),
                      float(a.misc_monthly)), float(12))
        annual_noi == sub(mul(d.eff_rent_after_vacancy, float(12)), op_expenses_annual)
    IN  [total_monthly_exp |-> total_monthly_exp,
         net_monthly_cashflow |-> net_monthly_cashflow,
         annual_cashflow |-> annual_cashflow,
         coc_roi |-> IF f.dp_amount > 0
                     THEN mul(truediv(annual_cashflow, float(f.dp_amount)), float(100))
                     ELSE FZero,
         annual_noi |-> IF dyn THEN annual_noi ELSE None,
         cap_rate |-> IF dyn
                      THEN mul(truediv(annual_noi, float(a.purchase_price)), float(100))
                      ELSE None]

\* the dict calculate_financial_components returns
components_dict_binary64(a, f, d, t) ==
    LET dyn == a.use_dynamic_capex
    IN  [raised |-> "",
         purchase_price |-> a.purchase_price, down_payment_amount |-> f.dp_amount,
         down_payment_percentage |-> f.dp_pct, loan_amount |-> f.loan_amt,
         annual_interest_rate_percent |-> a.annual_rate_percent,
         loan_term_years |-> a.loan_term_years,
         annual_insurance_cost |-> a.annual_insurance, misc_monthly_cost |-> a.misc_monthly,
         tax_info_raw |-> a.tax_info_raw, estimated_monthly_rent |-> f.eff_rent,
         monthly_p_and_i |-> f.payment.v, annual_taxes |-> f.annual_tax,
         monthly_taxes |-> f.monthly_tax, monthly_insurance |-> f.monthly_ins,
         vacancy_rate_percent |-> OnlyIf(dyn, a.vacancy_rate_pct, None),
         effective_rent_after_vacancy |-> d.eff_rent_after_vacancy,
         property_mgmt_fee_percent |-> OnlyIf(dyn, a.property_mgmt_fee_pct, None),
         monthly_property_mgmt |-> d.monthly_prop_mgmt,
         maintenance_percent |-> a.maintenance_pct,
         adjusted_maintenance_percent |-> OnlyIf(dyn, d.adj_maint_pct, None),
         monthly_maintenance |-> d.monthly_maint,
         capex_percent |-> a.capex_pct,
         adjusted_capex_percent |-> OnlyIf(dyn, d.adj_capex_pct, None),
         monthly_capex |-> d.monthly_capex_val,
         capex_reserve_details |-> d.capex_details,
         utilities_monthly |-> OnlyIf(dyn, a.utilities_monthly, 0),
         total_monthly_expenses |-> t.total_monthly_exp,
         net_monthly_cashflow |-> t.net_monthly_cashflow,
         annual_cashflow |-> t.annual_cashflow, cash_on_cash_roi |-> t.coc_roi,
         annual_noi |-> t.annual_noi, cap_rate |-> t.cap_rate,
         property_age |-> a.prop_age, property_condition |-> a.prop_cond,
         square_feet |-> a.sq_ft, use_dynamic_capex |-> dyn]

\* calculate_financial_components once the financing part has run
totals_and_dict_binary64(a, f, d) == components_dict_binary64(a, f, d, totals_binary64(a, f, d))

\* the exception calculate_mortgage_payment raised leaves the function
after_financing_binary64(a, f) ==
    IF f.payment.raised # "" THEN [raised |-> f.payment.raised]
    ELSE totals_and_dict_binary64(a, f, dynamic_components_binary64(a, f))

\* calculate_financial_components of appreciation_and_cashflow_analyzer.py
calculate_financial_components_binary64(a) ==
    IF a.purchase_price <= 0 THEN None
    ELSE after_financing_binary64(a, base_expenses_binary64(a, financing_components_binary64(a)))

\* the dict calculate_financial_components of cashflow_analyzer.py returns,
\* unless calculate_mortgage_payment raised
basic_components_dict_binary64(a, f) ==
    IF f.payment.raised # "" THEN [raised |-> f.payment.raised]
    ELSE [raised |-> "",
          purchase_price |-> a.purchase_price, down_payment_amount |-> f.dp_amount,
          down_payment_percentage |-> f.dp_pct, loan_amount |-> f.loan_amt,
          annual_interest_rate_percent |-> a.annual_rate_percent,
          loan_term_years |-> a.loan_term_years,
          annual_insurance_cost |-> a.annual_insurance, misc_monthly_cost |-> a.misc_monthly,
          tax_info_raw |-> a.tax_info_raw, estimated_monthly_rent |-> f.eff_rent,
          monthly_p_and_i |-> f.payment.v, annual_taxes |-> f.annual_tax,
          monthly_taxes |-> f.monthly_tax, monthly_insurance |-> f.monthly_ins,
          total_monthly_expenses |-> f.base_exp,
          net_monthly_cashflow |-> sub(f.eff_rent, f.base_exp)]

\* calculate_financial_components of cashflow_analyzer.py
basic_calculate_financial_components_binary64(a) ==
    IF a.purchase_price <= 0 THEN None
    ELSE basic_components_dict_binary64(a,
             base_expenses_binary64(a, financing_components_binary64(a)))

\* a call of calculate_mortgage_payment or of one of the two
\* calculate_financial_components, or one float operation
Call(function, arguments) ==
    CASE function = "float" -> FOfInt(arguments[1], 0)
      [] function = "add" -> FAdd(arguments[1], arguments[2])
      [] function = "sub" -> FSub(arguments[1], arguments[2])
      [] function = "mul" -> FMul(arguments[1], arguments[2])
      [] function = "truediv" -> FDiv(arguments[1], arguments[2])
      [] function = "lt" -> FLess(arguments[1], arguments[2])
      [] function = "pow" -> FPow(arguments[1], arguments[2])
      [] function = "calculate_mortgage_payment" ->
             calculate_mortgage_payment_binary64(arguments[1], arguments[2], arguments[3])
      [] function = "calculate_financial_components" ->
             calculate_financial_components_binary64(arguments[1])
      [] function = "cashflow_analyzer.calculate_financial_components" ->
             basic_calculate_financial_components_binary64(arguments[1])

-----------------------------------------------------------------------------
(* calculate_appreciation_returns: the projection over the investment horizon  *)
(* (appreciation_and_cashflow_analyzer.py)                                      *)

\* a ** k for any integer k and a # 0
Power(a, k) == IF k >= 0 THEN RPow(a, k) ELSE RDiv(R(1), RPow(a, -k))

RMax(a, b) == IF RLt(a, b) THEN b ELSE a

\* (base ** (1 / years) - 1) * 100 is not a fraction in general: it is kept as
\* its base and its number of years; the value is 0 exactly when base = 1
Annualized(base, years) == [base |-> base, years |-> years]

\* x > t for an annualized percentage x and an integer t > -100
AnnualizedGt(x, t) == RLt(RPow(RAdd(R(1), Rat(t, 100)), x.years), x.base)

\* future_val and total_appr; 0.0 ** negative raises ZeroDivisionError
future_value_of(purchase_price, eff_app_rate, investment_horizon) ==
    IF RAdd(R(1), RDiv(eff_app_rate, R(100))) = R(0) /\ investment_horizon < 0
    THEN Raise("ZeroDivisionError")
    ELSE Value(RMul(purchase_price,
                    Power(RAdd(R(1), RDiv(eff_app_rate, R(100))), investment_horizon)))

\* the amortized balance after payments_made of num_total_payments payments
amortized_balance(loan_amount, monthly_rate, num_total_payments, payments_made) ==
    IF RSub(Power(RAdd(R(1), monthly_rate), num_total_payments), R(1)) # R(0)
    THEN RMul(loan_amount,
              RDiv(RSub(Power(RAdd(R(1), monthly_rate), num_total_payments),
                        Power(RAdd(R(1), monthly_rate), payments_made)),
                   RSub(Power(RAdd(R(1), monthly_rate), num_total_payments), R(1))))
    ELSE R(0)

\* remaining_balance_without_payoff_test: the balance formula applied even
\* when the payments made reach the number of payments
remaining_balance_without_payoff_test(loan_amount, monthly_payment, annual_interest_rate_percent, loan_term_years, investment_horizon) ==
    IF RLt(R(0), loan_amount) /\ RLt(R(0), monthly_payment)
    THEN IF RLt(R(0), RDiv(RDiv(annual_interest_rate_percent, R(100)), R(12)))
         THEN amortized_balance(loan_amount,
                  RDiv(RDiv(annual_interest_rate_percent, R(100)), R(12)),
                  loan_term_years * 12, investment_horizon * 12)
         ELSE RMax(R(0), RSub(loan_amount,
                              RMul(monthly_payment, R(investment_horizon * 12))))
    ELSE loan_amount

\* remaining_balance with the payments of an interest-free loan added to the
\* balance
remaining_balance_with_payments_added(loan_amount, monthly_payment, annual_interest_rate_percent, loan_term_years, investment_horizon) ==
    IF RLt(R(0), loan_amount) /\ RLt(R(0), monthly_payment)
    THEN IF investment_horizon * 12 >= loan_term_years * 12 THEN R(0)
         ELSE IF RLt(R(0), RDiv(RDiv(annual_interest_rate_percent, R(100)), R(12)))
              THEN amortized_balance(loan_amount,
                       RDiv(RDiv(annual_interest_rate_percent, R(100)), R(12)),
                       loan_term_years * 12, investment_horizon * 12)
              ELSE RMax(R(0), RAdd(loan_amount,
                                   RMul(monthly_payment, R(investment_horizon * 12))))
    ELSE loan_amount

\* remaining_balance
remaining_balance_of(loan_amount, monthly_payment, annual_interest_rate_percent, loan_term_years, investment_horizon) ==
    IF RLt(R(0), loan_amount) /\ RLt(R(0), monthly_payment)
    THEN IF investment_horizon * 12 >= loan_term_years * 12 THEN R(0)
         ELSE IF RLt(R(0), RDiv(RDiv(annual_interest_rate_percent, R(100)), R(12)))
              THEN amortized_balance(loan_amount,
                       RDiv(RDiv(annual_interest_rate_percent, R(100)), R(12)),
                       loan_term_years * 12, investment_horizon * 12)
              ELSE RMax(R(0), RSub(loan_amount,
                                   RMul(monthly_payment, R(investment_horizon * 12))))
    ELSE loan_amount

\* annualized_roi
\* annualized_roi_without_profit_guard: the root is taken of any end value
annualized_roi_without_profit_guard(down_payment_amount, total_profit, investment_horizon) ==
    IF RLt(R(0), down_payment_amount) /\ investment_horizon > 0
    THEN Annualized(RDiv(RAdd(down_payment_amount, total_profit), down_payment_amount),
                    investment_horizon)
    ELSE Annualized(R(1), 1)

annualized_roi_of(down_payment_amount, total_profit, investment_horizon) ==
    IF RLt(R(0), down_payment_amount) /\ investment_horizon > 0
    THEN IF RLt(R(0), RAdd(down_payment_amount, total_profit))
         THEN Annualized(RDiv(RAdd(down_payment_amount, total_profit), down_payment_amount),
                         investment_horizon)
         ELSE Annualized(R(1), 1)
    ELSE Annualized(R(1), 1)

\* the equity and profit figures, from future_val and remaining_balance
profit_of(financials, investment_horizon, future_val, remaining_balance) ==
    [equity_from_mortgage_paydown |-> RSub(financials.loan_amount, remaining_balance),
     total_equity_at_horizon |->
         RAdd(RAdd(financials.down_payment_amount,
                   RSub(financials.loan_amount, remaining_balance)),
              RSub(future_val, financials.purchase_price)),
     total_cashflow_over_horizon |-> RMul(financials.annual_cashflow, R(investment_horizon)),
     total_profit |->
         RAdd(RSub(RAdd(RAdd(financials.down_payment_amount,
                             RSub(financials.loan_amount, remaining_balance)),
                        RSub(future_val, financials.purchase_price)),
                   financials.down_payment_amount),
              RMul(financials.annual_cashflow, R(investment_horizon)))]

\* the returned dict; r is what the rate resolution left, p what profit_of computed
returns_dict(financials, investment_horizon, r, future_val, remaining_balance, p) ==
    [raised |-> "",
     purchase_price |-> financials.purchase_price, future_value |-> future_val,
     total_appreciation |-> RSub(future_val, financials.purchase_price),
     appreciation_percent_total |->
         IF RLt(R(0), financials.purchase_price)
         THEN RMul(RDiv(RSub(future_val, financials.purchase_price),
                        financials.purchase_price), R(100))
         ELSE R(0),
     annual_appreciation_rate_used |-> r.annual_appreciation_rate_used,
     equity_from_mortgage_paydown |-> p.equity_from_mortgage_paydown,
     remaining_loan_balance |-> remaining_balance,
     total_cashflow_over_horizon |-> p.total_cashflow_over_horizon,
     total_profit |-> p.total_profit,
     total_roi_percent_on_equity |->
         IF RLt(R(0), financials.down_payment_amount)
         THEN RMul(RDiv(p.total_profit, financials.down_payment_amount), R(100))
         ELSE R(0),
     annualized_roi_on_equity |->
         annualized_roi_of(financials.down_payment_amount, p.total_profit,
                           investment_horizon),
     initial_equity |-> financials.down_payment_amount,
     total_equity_at_horizon |-> p.total_equity_at_horizon,
     market_outlook_assessment |-> r.market_outlook_assessment,
     investment_horizon_years |-> investment_horizon,
     source_of_appreciation_data |-> r.source_of_appreciation_data]

\* the projection, given the resolved rate r.annual_appreciation_rate_used,
\* future_val and monthly_payment
projection_of(financials, investment_horizon, r, future, payment) ==
    IF future.raised # "" THEN [raised |-> future.raised]
    ELSE IF payment.raised # "" THEN [raised |-> payment.raised]
    ELSE returns_dict(financials, investment_horizon, r, future.v,
             remaining_balance_of(financials.loan_amount, payment.v,
                                  financials.annual_interest_rate_percent,
                                  financials.loan_term_years, investment_horizon),
             profit_of(financials, investment_horizon, future.v,
                 remaining_balance_of(financials.loan_amount, payment.v,
                                      financials.annual_interest_rate_percent,
                                      financials.loan_term_years, investment_horizon)))

\* calculate_appreciation_returns as a whole: the rate resolution, then the
\* projection; hv is what the historical lookup returned
appreciation_returns_of(financials, investment_horizon, hv, a, cfg) ==
    IF calculate_appreciation_returns(hv, a, cfg).raised # ""
    THEN [raised |-> calculate_appreciation_returns(hv, a, cfg).raised]
    ELSE projection_of(financials, investment_horizon,
             calculate_appreciation_returns(hv, a, cfg),
             future_value_of(financials.purchase_price,
                 R(calculate_appreciation_returns(hv, a, cfg).annual_appreciation_rate_used[1]),
                 investment_horizon),
             calculate_mortgage_payment(financials.loan_amount,
                                        financials.annual_interest_rate_percent,
                                        financials.loan_term_years))

-----------------------------------------------------------------------------
(* run_analysis_and_print: the deal score (appreciation_and_cashflow_analyzer.py) *)

Scored(score, rating) == [score |-> score, rating |-> rating]

\* score_cashflow with the scores of the buckets on either side of 0 exchanged
score_cashflow_with_exchanged_buckets(cf_monthly) ==
    IF RLt(R(300), cf_monthly) THEN Scored(Rat(5, 2), "Excellent")
    ELSE IF RLt(R(100), cf_monthly) THEN Scored(Rat(3, 2), "Good")
    ELSE IF RLt(R(0), cf_monthly) THEN Scored(Rat(-1, 2), "Fair")
    ELSE IF cf_monthly = R(0) THEN Scored(R(0), "Neutral")
    ELSE IF RLt(R(-100), cf_monthly) THEN Scored(Rat(1, 2), "Poor")
    ELSE IF RLt(R(-300), cf_monthly) THEN Scored(Rat(-3, 2), "Very Poor")
    ELSE Scored(Rat(-5, 2), "Extremely Poor")

score_cashflow(cf_monthly) ==
    IF RLt(R(300), cf_monthly) THEN Scored(Rat(5, 2), "Excellent")
    ELSE IF RLt(R(100), cf_monthly) THEN Scored(Rat(3, 2), "Good")
    ELSE IF RLt(R(0), cf_monthly) THEN Scored(Rat(1, 2), "Fair")
    ELSE IF cf_monthly = R(0) THEN Scored(R(0), "Neutral")
    ELSE IF RLt(R(-100), cf_monthly) THEN Scored(Rat(-1, 2), "Poor")
    ELSE IF RLt(R(-300), cf_monthly) THEN Scored(Rat(-3, 2), "Very Poor")
    ELSE Scored(Rat(-5, 2), "Extremely Poor")

\* score_coc_roi with a lowest bucket as deep as that of score_cashflow
score_coc_roi_with_deeper_floor(coc) ==
    IF RLt(R(12), coc) THEN Scored(Rat(5, 2), "Excellent")
    ELSE IF RLt(R(8), coc) THEN Scored(Rat(3, 2), "Good")
    ELSE IF RLt(R(5), coc) THEN Scored(Rat(1, 2), "Fair")
    ELSE IF RLt(R(2), coc) THEN Scored(R(0), "Neutral")
    ELSE IF RLe(R(0), coc) THEN Scored(Rat(-1, 2), "Poor")
    ELSE Scored(Rat(-5, 2), "Very Poor")

score_coc_roi(coc) ==
    IF RLt(R(12), coc) THEN Scored(Rat(5, 2), "Excellent")
    ELSE IF RLt(R(8), coc) THEN Scored(Rat(3, 2), "Good")
    ELSE IF RLt(R(5), coc) THEN Scored(Rat(1, 2), "Fair")
    ELSE IF RLt(R(2), coc) THEN Scored(R(0), "Neutral")
    ELSE IF RLe(R(0), coc) THEN Scored(Rat(-1, 2), "Poor")
    ELSE Scored(Rat(-3, 2), "Very Poor")

\* score_cap_rate that scores every cap rate it is given, whatever the mode
score_cap_rate_in_every_mode(cap, is_dynamic_capex) ==
    IF cap = None THEN Scored(R(0), "N/A (Dynamic CapEx off or N/A)")
    ELSE IF RLt(R(7), cap) THEN Scored(R(2), "Excellent")
    ELSE IF RLt(Rat(11, 2), cap) THEN Scored(R(1), "Good")
    ELSE IF RLt(R(4), cap) THEN Scored(R(0), "Fair")
    ELSE IF RLt(Rat(5, 2), cap) THEN Scored(R(-1), "Poor")
    ELSE Scored(R(-2), "Very Poor")

score_cap_rate(cap, is_dynamic_capex) ==
    IF ~is_dynamic_capex \/ cap = None THEN Scored(R(0), "N/A (Dynamic CapEx off or N/A)")
    ELSE IF RLt(R(7), cap) THEN Scored(R(2), "Excellent")
    ELSE IF RLt(Rat(11, 2), cap) THEN Scored(R(1), "Good")
    ELSE IF RLt(R(4), cap) THEN Scored(R(0), "Fair")
    ELSE IF RLt(Rat(5, 2), cap) THEN Scored(R(-1), "Poor")
    ELSE Scored(R(-2), "Very Poor")

\* score_annualized_total_roi with a top score as high as that of score_cashflow
score_annualized_total_roi_with_higher_top(annual_roi) ==
    IF AnnualizedGt(annual_roi, 15) THEN Scored(Rat(5, 2), "Excellent")
    ELSE IF AnnualizedGt(annual_roi, 10) THEN Scored(R(1), "Good")
    ELSE IF AnnualizedGt(annual_roi, 7) THEN Scored(Rat(1, 2), "Fair")
    ELSE IF AnnualizedGt(annual_roi, 4) THEN Scored(R(0), "Neutral")
    ELSE IF RLe(R(1), annual_roi.base) THEN Scored(Rat(-1, 2), "Poor")
    ELSE Scored(R(-1), "Very Poor")

score_annualized_total_roi(annual_roi) ==
    IF AnnualizedGt(annual_roi, 15) THEN Scored(R(2), "Excellent")
    ELSE IF AnnualizedGt(annual_roi, 10) THEN Scored(R(1), "Good")
    ELSE IF AnnualizedGt(annual_roi, 7) THEN Scored(Rat(1, 2), "Fair")
    ELSE IF AnnualizedGt(annual_roi, 4) THEN Scored(R(0), "Neutral")
    ELSE IF RLe(R(1), annual_roi.base) THEN Scored(Rat(-1, 2), "Poor")
    ELSE Scored(R(-1), "Very Poor")

\* normalized_score, clamped between 0 and 10
normalized_score_of(overall_score) ==
    RMax(R(0), IF RLt(RMul(RDiv(RAdd(overall_score, R(7)), R(16)), R(10)), R(10))
               THEN RMul(RDiv(RAdd(overall_score, R(7)), R(16)), R(10))
               ELSE R(10))

overall_rating_of(normalized_score) ==
    IF RLe(Rat(17, 2), normalized_score) THEN "Excellent Investment Prospect!"
    ELSE IF RLe(Rat(13, 2), normalized_score) THEN "Good Investment Prospect"
    ELSE IF RLe(R(4), normalized_score) THEN "Fair Investment Prospect, Potential Upsides"
    ELSE IF RLe(R(2), normalized_score) THEN "Marginal Investment, Consider Carefully"
    ELSE "Poor Investment Prospect"

\* the four scores, their sum, the normalized score and the overall rating
deal_score(financials, appreciation_returns, use_dynamic_capex) ==
    LET cf == score_cashflow(financials.net_monthly_cashflow)
        coc == score_coc_roi(financials.cash_on_cash_roi)
        cap == score_cap_rate(financials.cap_rate, use_dynamic_capex)
        annual_roi == score_annualized_total_roi(appreciation_returns.annualized_roi_on_equity)
        overall_score == RAdd(RAdd(RAdd(cf.score, coc.score), cap.score), annual_roi.score)
    IN  [cf |-> cf, coc |-> coc, cap |-> cap, annual_roi |-> annual_roi,
         overall_score |-> overall_score,
         normalized_score |-> normalized_score_of(overall_score),
         overall_rating |-> overall_rating_of(normalized_score_of(overall_score))]

\* what run_analysis_and_print has computed when it returns or raises
Analysis(raised, financials, appreciation_returns, score) ==
    [raised |-> raised, financials |-> financials,
     appreciation_returns |-> appreciation_returns, score |-> score]

\* run_analysis_and_print once calculate_appreciation_returns has run
analysis_scored(financials, appreciation_returns, use_dynamic_capex) ==
    IF appreciation_returns.raised # ""
    THEN Analysis(appreciation_returns.raised, financials, None, None)
    ELSE Analysis("", financials, appreciation_returns,
                  deal_score(financials, appreciation_returns, use_dynamic_capex))

\* run_analysis_and_print once calculate_financial_components has run
analysis_from(financials, investment_horizon, hv, a, cfg, use_dynamic_capex) ==
    IF financials = None THEN Analysis("", None, None, None)
    ELSE IF financials.raised # "" THEN Analysis(financials.raised, None, None, None)
    ELSE analysis_scored(financials,
             appreciation_returns_of(financials, investment_horizon, hv, a, cfg),
             use_dynamic_capex)

\* actual_sq_ft, actual_prop_age (the value of the listing when it has one:
\* None or Some(years) for the age) and the keyword arguments of the call to
\* calculate_financial_components
financial_call_args(args_dict, property_data) ==
    [ purchase_price |-> property_data.price,
      tax_info_raw |-> property_data.tax_information_raw,
      est_monthly_rent |-> property_data.estimated_rent_raw,
      down_payment_dollars |-> args_dict.down_payment,
      annual_rate_percent |-> args_dict.rate, loan_term_years |-> args_dict.loan_term,
      annual_insurance |-> args_dict.insurance, misc_monthly |-> args_dict.misc_monthly,
      vacancy_rate_pct |-> args_dict.vacancy_rate,
      property_mgmt_fee_pct |-> args_dict.property_mgmt_fee,
      maintenance_pct |-> args_dict.maintenance_percent,
      capex_pct |-> args_dict.capex_percent,
      utilities_monthly |-> args_dict.utilities_monthly,
      use_dynamic_capex |-> args_dict.use_dynamic_capex,
      prop_age |-> IF property_data.calculated_property_age # None
                   THEN property_data.calculated_property_age[1]
                   ELSE args_dict.property_age,
      prop_cond |-> args_dict.property_condition,
      sq_ft |-> IF property_data.sqft # None THEN property_data.sqft
                ELSE args_dict.square_feet ]

\* the keyword arguments of the call to calculate_appreciation_returns that the
\* rate resolution reads
appreciation_call_args(args_dict, effective_neighborhood_name_for_analysis) ==
    [ manual_appreciation_rate |-> args_dict.appreciation_rate,
      neighborhood_name |-> effective_neighborhood_name_for_analysis,
      fetch_real_data_flag |-> args_dict.fetch_real_appreciation,
      use_historical_metric_name |-> args_dict.use_historical_metric,
      historical_db_path |-> args_dict.neighborhood_analysis_db_path,
      target_city_for_historical |-> args_dict.target_city_for_historical ]

\* run_analysis_and_print: what it has computed when it returns or raises; hv is
\* what the historical lookup returns if it is called
run_analysis_and_print(args_dict, property_data, neighborhood_data_from_config, effective_neighborhood_name_for_analysis, hv) ==
    analysis_from(calculate_financial_components(financial_call_args(args_dict, property_data)),
                  args_dict.investment_horizon, hv,
                  appreciation_call_args(args_dict, effective_neighborhood_name_for_analysis),
                  neighborhood_data_from_config, args_dict.use_dynamic_capex)

-----------------------------------------------------------------------------
(* Inputs *)

EntryFull(v) ==
    JDict([historical_appreciation |-> JNum(v), long_term_outlook |-> JStr("strong")])

EntryRateOnly(j) == JDict([historical_appreciation |-> j])

EntryNoRate == JDict([long_term_outlook |-> JStr("strong")])

EntryEmpty == JDict(<<>>)

\* neighborhood_appreciation_data maps the caller may load
Configs ==
    { JNull,
      JDict(<<>>),
      JDict(N_A_b :> EntryFull(5) @@ N_Ab :> EntryFull(6) @@ DefaultKey :> EntryFull(3)),
      JDict(N_Ab :> EntryRateOnly(JNum(6)) @@ DefaultKey :> EntryFull(3)),
      JDict(N_A_b :> EntryNoRate @@ N_Ab :> EntryFull(6) @@ DefaultKey :> EntryFull(3)),
      JDict(N_A_b :> EntryEmpty @@ N_Ab :> EntryFull(6) @@ DefaultKey :> EntryFull(3)),
      JDict(N_A_b :> EntryRateOnly(JStr("x")) @@ DefaultKey :> EntryRateOnly(JStr("7"))),
      JDict(N_A_b :> EntryRateOnly(JNum(0)) @@ DefaultKey :> EntryFull(3)),
      JDict(N_A_b :> EntryRateOnly(JList) @@ DefaultKey :> EntryFull(3)),
      JDict(N_A_b :> EntryFull(5)),
      JDict(DefaultKey :> EntryNoRate) }

FetchArgs ==
    [ neighborhood_name : {None, N_A_b, N_Ab, N_c},
      city_name : {None, City_d, City_e},
      metric_to_fetch : {None, Some(M5), Some("median_sale_price_2_year_cagr")},
      db_path : {Some("neighborhood_analysis.db")} ]

ResolveArgs ==
    [ manual_appreciation_rate : {None, Some(0), Some(4)},
      neighborhood_name : {None, N_A_b, N_Ab, N_c},
      fetch_real_data_flag : BOOLEAN,
      use_historical_metric_name : {None, Some(M5), Some("median_sale_price_2_year_cagr")},
      historical_db_path : {None, Some("neighborhood_analysis.db")},
      target_city_for_historical : {None, City_d} ]

\* the store: reachable with some rows, or failing on connect or on execute
InitStore(maxRows) ==
    /\ db_status \in {"ok", "unreachable", "query_error"}
    /\ hist_db \in { db \in SUBSET Rows : Cardinality(db) <= maxRows }
    /\ db_status # "ok" => hist_db = {}

InitCall ==
    /\ pc = "idle"
    /\ args = None
    /\ historical_metric_value_raw = None
    /\ ret = None

-----------------------------------------------------------------------------
(* The historical lookup called on its own *)

InitFetch ==
    /\ InitStore(MaxRows)
    /\ neighborhood_appreciation_config = JNull
    /\ InitCall

FetchHistorical ==
    /\ pc = "idle"
    /\ \E a \in FetchArgs :
         \E hv \in fetch_historical_appreciation_metric(
                       hist_db, db_status, a.neighborhood_name, a.city_name,
                       a.metric_to_fetch, a.db_path) :
            /\ args' = a
            /\ historical_metric_value_raw' = hv
            /\ ret' = hv
    /\ pc' = "fetched"
    /\ UNCHANGED <<hist_db, db_status, neighborhood_appreciation_config>>

NextFetch == FetchHistorical

SpecFetch == InitFetch /\ [][NextFetch]_vars

-----------------------------------------------------------------------------
(* The whole rate resolution *)

InitResolve ==
    /\ InitStore(MaxRowsResolve)
    /\ neighborhood_appreciation_config \in Configs
    /\ InitCall

\* what Step 1 leaves in historical_metric_value_raw
HistoricalOutcomes(db, status, a) ==
    IF HistoricalAttempted(a)
    THEN fetch_historical_appreciation_metric(
             db, status, a.neighborhood_name, a.target_city_for_historical,
             a.use_historical_metric_name, a.historical_db_path)
    ELSE {None}

ResolveRate ==
    /\ pc = "idle"
    /\ \E a \in ResolveArgs :
         \E hv \in HistoricalOutcomes(hist_db, db_status, a) :
            /\ args' = a
            /\ historical_metric_value_raw' = hv
            /\ ret' = calculate_appreciation_returns(hv, a, neighborhood_appreciation_config)
    /\ pc' = "resolved"
    /\ UNCHANGED <<hist_db, db_status, neighborhood_appreciation_config>>

NextResolve == ResolveRate

SpecResolve == InitResolve /\ [][NextResolve]_vars

-----------------------------------------------------------------------------
(* The cashflow computation, in its two variants *)

Tax_1200 == <<"$", "1", ",", "2", "0", "0", " ", "/", " ", "A", "n", "n">>

Tax_TBD == <<"T", "B", "D">>

\* <<annual_rate_percent, loan_term_years>>: interest-free loans, and loans at
\* 100% a month over one year or over no time at all
Loans == { <<0, 30>>, <<0, 0>>, <<1200, 1>>, <<1200, 0>> }

CallArgs(price, tax, rent, down, loan, insurance, vacancy, mgmt, utilities, dyn, age, cond, sqft) ==
    [ purchase_price |-> R(price), tax_info_raw |-> tax, est_monthly_rent |-> rent,
      down_payment_dollars |-> R(down), annual_rate_percent |-> R(loan[1]),
      loan_term_years |-> loan[2], annual_insurance |-> insurance,
      misc_monthly |-> R(50), vacancy_rate_pct |-> R(vacancy),
      property_mgmt_fee_pct |-> R(mgmt), maintenance_pct |-> R(1), capex_pct |-> R(1),
      utilities_monthly |-> R(utilities), use_dynamic_capex |-> dyn,
      prop_age |-> age, prop_cond |-> cond, sq_ft |-> sqft ]

\* calls with dynamic CapEx off: every price, tax text, rent, down payment and loan
NonDynamicArgs ==
    { CallArgs(price, tax, rent, down, loan, insurance, vacancy, mgmt, utilities, FALSE,
               20, "good", None) :
        price \in {0, 2400}, tax \in {None, Tax_1200, Tax_TBD}, rent \in {None, R(1000)},
        down \in {-100, 0, 600, 2400, 3000}, loan \in Loans, insurance \in {None, R(600)},
        vacancy \in {5, 10}, mgmt \in {0, 8}, utilities \in {0, 40} }

\* calls with dynamic CapEx on; an interest-bearing loan comes with a condition of
\* multiplier 1.0
DynamicArgs ==
    { a \in { CallArgs(2400, tax, rent, down, loan, R(600), 5, mgmt, utilities, TRUE,
                        age, cond, sqft) :
                 tax \in {None, Tax_1200}, rent \in {None, R(1000)},
                 down \in {-100, 600, 3000}, loan \in Loans, mgmt \in {0, 8},
                 utilities \in {0, 40}, age \in {3, 20, 60},
                 cond \in {"good", "Poor", "run-down"}, sqft \in {None, R(720)} } :
        a.annual_rate_percent = R(0) \/ a.prop_cond # "Poor" }

CashflowArgs == NonDynamicArgs \cup DynamicArgs

InitCashflow ==
    /\ hist_db = {}
    /\ db_status = "ok"
    /\ neighborhood_appreciation_config = JNull
    /\ InitCall

CalcFinancialComponents ==
    /\ pc = "idle"
    /\ \E a \in CashflowArgs :
          /\ args' = a
          /\ ret' = calculate_financial_components(a)
    /\ pc' = "computed"
    /\ UNCHANGED <<hist_db, db_status, neighborhood_appreciation_config,
                   historical_metric_value_raw>>

CalcFinancialComponentsModified ==
    /\ pc = "idle"
    /\ \E a \in CashflowArgs :
          /\ args' = a
          /\ ret' = modified_calculate_financial_components(a)
    /\ pc' = "computed_modified"
    /\ UNCHANGED <<hist_db, db_status, neighborhood_appreciation_config,
                   historical_metric_value_raw>>

CalcFinancialComponentsBasic ==
    /\ pc = "idle"
    /\ \E a \in NonDynamicArgs :
          /\ args' = a
          /\ ret' = basic_calculate_financial_components(a)
    /\ pc' = "computed_basic"
    /\ UNCHANGED <<hist_db, db_status, neighborhood_appreciation_config,
                   historical_metric_value_raw>>

Tax_4800 == <<"$", "4", ",", "8", "0", "0", " ", "/", " ", "A", "n", "n", "u", "a", "l", "l", "y">>

\* calls in dollars as the command line and the listings give them: a listing
\* at $400,000 (or without a usable price), a 30-year loan at 6.5% or at 0%
Binary64Args ==
    { [ purchase_price |-> price, tax_info_raw |-> tax, est_monthly_rent |-> rent,
        down_payment_dollars |-> down, annual_rate_percent |-> FOfInt(rate[1], rate[2]),
        loan_term_years |-> 30, annual_insurance |-> insurance, misc_monthly |-> 50,
        vacancy_rate_pct |-> 5, property_mgmt_fee_pct |-> 8, maintenance_pct |-> 1,
        capex_pct |-> 1, utilities_monthly |-> 0, use_dynamic_capex |-> dyn,
        prop_age |-> 20, prop_cond |-> "good", sq_ft |-> sqft ] :
        price \in {0, 400000}, tax \in {None, Tax_4800},
        rent \in {None, FOfInt(2500, 0)},
        down \in {-1000, 80000, 500000}, rate \in {<<0, 0>>, <<13, -1>>},
        insurance \in {None, FOfInt(1200, 0)}, dyn \in BOOLEAN,
        sqft \in {None, FOfInt(1500, 0)} }

CalcFinancialComponentsBinary64 ==
    /\ pc = "idle"
    /\ \E a \in Binary64Args :
          /\ args' = a
          /\ ret' = Call("calculate_financial_components", <<a>>)
    /\ pc' = "computed_binary64"
    /\ UNCHANGED <<hist_db, db_status, neighborhood_appreciation_config,
                   historical_metric_value_raw>>

CalcFinancialComponentsBasicBinary64 ==
    /\ pc = "idle"
    /\ \E a \in { b \in Binary64Args : ~b.use_dynamic_capex /\ b.sq_ft = None } :
          /\ args' = a
          /\ ret' = Call("cashflow_analyzer.calculate_financial_components", <<a>>)
    /\ pc' = "computed_basic_binary64"
    /\ UNCHANGED <<hist_db, db_status, neighborhood_appreciation_config,
                   historical_metric_value_raw>>

NextCashflow ==
    \/ CalcFinancialComponents
    \/ CalcFinancialComponentsModified
    \/ CalcFinancialComponentsBasic
    \/ CalcFinancialComponentsBinary64
    \/ CalcFinancialComponentsBasicBinary64

SpecCashflow == InitCashflow /\ [][NextCashflow]_vars

-----------------------------------------------------------------------------
(* The whole analysis of one listing: run_analysis_and_print *)

\* the horizons: negative, none, and up to MaxHorizon years
MaxHorizon == 2

\* the listing as fetch_property_data returns it; a price missing, negative
\* or zero comes with no other field set
PropertyData ==
    { [price |-> price, tax_information_raw |-> tax, estimated_rent_raw |-> rent,
       sqft |-> sqft, calculated_property_age |-> age] :
        price \in {None, R(-100), R(0), R(2400)}, tax \in {None, Tax_1200},
        rent \in {None, R(1000)}, sqft \in {None, R(720)}, age \in {None, Some(3)} }

\* the arguments of the command line, merged with the configuration; an
\* interest-bearing loan comes with dynamic CapEx off
ArgsDicts ==
    { d \in { [down_payment |-> R(down), rate |-> R(loan[1]), loan_term |-> loan[2],
               insurance |-> R(600), misc_monthly |-> R(50), vacancy_rate |-> R(5),
               property_mgmt_fee |-> R(8), maintenance_percent |-> R(1),
               capex_percent |-> R(1), utilities_monthly |-> R(0),
               use_dynamic_capex |-> dyn, property_age |-> 20,
               property_condition |-> "good", square_feet |-> R(1400),
               investment_horizon |-> horizon, appreciation_rate |-> rate,
               fetch_real_appreciation |-> FALSE, use_historical_metric |-> None,
               neighborhood_analysis_db_path |-> Some("neighborhood_analysis.db"),
               target_city_for_historical |-> None] :
                 down \in {-100, 600, 2400, 3000}, loan \in Loans \cup {<<0, 1>>},
                 dyn \in BOOLEAN,
                 horizon \in -1..MaxHorizon, rate \in {None, Some(0), Some(25)} } :
        d.rate = R(0) \/ ~d.use_dynamic_capex }

InitAnalysis ==
    /\ hist_db = {}
    /\ db_status = "ok"
    /\ neighborhood_appreciation_config \in {JNull, JDict(DefaultKey :> EntryFull(25))}
    /\ InitCall

RunAnalysisAndPrint ==
    /\ pc = "idle"
    /\ \E args_dict \in ArgsDicts, property_data \in PropertyData :
         \E hv \in HistoricalOutcomes(hist_db, db_status,
                                      appreciation_call_args(args_dict, None)) :
            /\ args' = [args_dict |-> args_dict, property_data |-> property_data]
            /\ historical_metric_value_raw' = hv
            /\ ret' = run_analysis_and_print(args_dict, property_data,
                                             neighborhood_appreciation_config, None, hv)
    /\ pc' = "analysed"
    /\ UNCHANGED <<hist_db, db_status, neighborhood_appreciation_config>>

NextAnalysis == RunAnalysisAndPrint

SpecAnalysis == InitAnalysis /\ [][NextAnalysis]_vars

-----------------------------------------------------------------------------
(* The helper functions called on their own *)

\* the longest tax text
MaxTaxLen == 4

\* every text of at most MaxTaxLen characters; the empty text stands for a
\* missing one as well
TaxTexts == UNION { [1..n -> {"$", "1", "0", ",", ".", " "}] : n \in 0..MaxTaxLen }

ParseTaxAmount ==
    /\ pc = "idle"
    /\ \E tax_info_str \in TaxTexts :
          /\ args' = [tax_info_str |-> tax_info_str]
          /\ ret' = [annual_tax |-> parse_tax_amount(tax_info_str),
                     components |->
                         calculate_financial_components(
                             CallArgs(2400, tax_info_str, R(1000), 600, <<0, 30>>, R(600),
                                      5, 0, 0, FALSE, 20, "good", None))]
    /\ pc' = "tax_parsed"
    /\ UNCHANGED <<hist_db, db_status, neighborhood_appreciation_config,
                   historical_metric_value_raw>>

\* <<principal, annual_rate_percent, term_years>>: monthly rates of 0, 1/4, 1/2
\* and 1, with the principals and terms whose powers stay within 32 bits
\* <<principal, <<i, e>>, term_years>> for the rate i * 2^e per cent: no loan,
\* round sums, the loan of $320,000; no interest, 0.5%, 3%, 6.5% and rates
\* next to nothing; terms of 0 to 30 years
MortgageCalls ==
    { <<p, r, t>> : p \in {-5, 0, 1, 7, 100, 2400, 320000},
                    r \in {<<0, 0>>, <<1, -1>>, <<3, 0>>, <<13, -1>>, <<1, -22>>,
                           <<1, -42>>, <<1, -44>>},
                    t \in {0, 1, 7, 15, 30} }

CalcMortgagePayment ==
    /\ pc = "idle"
    /\ \E call \in MortgageCalls :
          /\ args' = [principal |-> call[1],
                      annual_rate_percent |-> FOfInt(call[2][1], call[2][2]),
                      term_years |-> call[3]]
          /\ ret' = Call("calculate_mortgage_payment",
                          <<call[1], FOfInt(call[2][1], call[2][2]), call[3]>>)
    /\ pc' = "payment_computed"
    /\ UNCHANGED <<hist_db, db_status, neighborhood_appreciation_config,
                   historical_metric_value_raw>>

\* the listings of calculate_capex_reserves: with and without a price, the
\* square feet missing, negative, zero and positive, the ages around every step
\* of get_age_multiplier, the four conditions, one in capitals and one unknown
CapexCalls ==
    [purchase_price : {R(0), R(2400)},
     sqft : {None, R(-100), R(0), R(720), R(1500)},
     age : {-3, 0, 5, 6, 15, 16, 20, 30, 31, 50, 51, 1000},
     condition : {"excellent", "good", "fair", "poor", "Poor", "shabby"}]

\* calculate_capex_reserves of the two variants on one listing, with the two
\* multipliers it starts from
CalcCapexReserves ==
    /\ pc = "idle"
    /\ \E call \in CapexCalls :
          /\ args' = call
          /\ ret' = [age_mult |-> get_age_multiplier(call.age),
                     cond_mult |-> ConditionMultiplier(call.condition),
                     reserves |-> calculate_capex_reserves(
                                      call.purchase_price, call.sqft, call.age,
                                      call.condition),
                     modified_reserves |-> modified_calculate_capex_reserves(
                                      call.purchase_price, call.sqft, call.age,
                                      call.condition)]
    /\ pc' = "capex_reserved"
    /\ UNCHANGED <<hist_db, db_status, neighborhood_appreciation_config,
                   historical_metric_value_raw>>

NextHelpers == ParseTaxAmount \/ CalcMortgagePayment \/ CalcCapexReserves

SpecHelpers == InitCashflow /\ [][NextHelpers]_vars

-----------------------------------------------------------------------------
(* The deal score computed on its own: the four scoring functions, the sum, *)
(* the normalization and the rating of run_analysis_and_print               *)

\* net monthly cashflows at, between and beyond the bounds of score_cashflow
CashflowValues ==
    {R(-400), R(-300), R(-100), R(-50), R(0), R(50), R(100), R(300), R(400)}

\* cash-on-cash ROIs at, between and beyond the bounds of score_coc_roi
CocValues == {R(-1), R(0), R(2), R(3), R(5), R(8), R(10), R(12), R(13)}

\* cap rates: none, and at, between and beyond the bounds of score_cap_rate
CapValues == {None, R(2), Rat(5, 2), R(4), R(5), Rat(11, 2), R(7), R(8)}

\* annualized ROIs: -50%, 0%, 4%, 5%, 7%, 10%, 11.8% (25% over two years), 15%
\* and 20%
AnnualizedValues ==
    { Annualized(Rat(1, 2), 1), Annualized(R(1), 1), Annualized(Rat(26, 25), 1),
      Annualized(Rat(21, 20), 1), Annualized(Rat(107, 100), 1),
      Annualized(Rat(11, 10), 1), Annualized(Rat(5, 4), 2),
      Annualized(Rat(23, 20), 1), Annualized(Rat(6, 5), 1) }

\* the metrics the deal score reads, and the dynamic CapEx flag
DealMetrics ==
    [net_monthly_cashflow : CashflowValues, cash_on_cash_roi : CocValues,
     cap_rate : CapValues, annualized_roi_on_equity : AnnualizedValues,
     use_dynamic_capex : BOOLEAN]

\* the deal score of run_analysis_and_print for the metrics m
deal_score_of(m) ==
    deal_score([net_monthly_cashflow |-> m.net_monthly_cashflow,
                cash_on_cash_roi |-> m.cash_on_cash_roi, cap_rate |-> m.cap_rate],
               [annualized_roi_on_equity |-> m.annualized_roi_on_equity],
               m.use_dynamic_capex)

ScoreDeal ==
    /\ pc = "idle"
    /\ \E m \in DealMetrics :
          /\ args' = m
          /\ ret' = deal_score_of(m)
    /\ pc' = "scored"
    /\ UNCHANGED <<hist_db, db_status, neighborhood_appreciation_config,
                   historical_metric_value_raw>>

\* nothing has been scored; the score reads neither the store nor the
\* configuration
InitScoring ==
    /\ hist_db = {}
    /\ db_status = "ok"
    /\ neighborhood_appreciation_config = JNull
    /\ InitCall

NextScoring == ScoreDeal

SpecScoring == InitScoring /\ [][NextScoring]_vars

-----------------------------------------------------------------------------
(* The engine run twice: calculate_financial_components, then               *)
(* calculate_appreciation_returns on the record it returned, and both again *)

\* what the two functions can reach besides their arguments: the module-level
\* tables, and the financials record that the first returns and the second is
\* given
Memory(capex_components, condition_multipliers, financials) ==
    [CAPEX_COMPONENTS |-> capex_components,
     CONDITION_MULTIPLIERS |-> condition_multipliers, financials |-> financials]

\* the functions of the engine, called by name
RECURSIVE EngineCall(_, _)

\* the memory once the module is imported
ModuleMemory == Memory(CAPEX_COMPONENTS, CONDITION_MULTIPLIERS, None)

\* the memory after calculate_financial_components(a): the function looks up
\* CONDITION_MULTIPLIERS with .get and walks over CAPEX_COMPONENTS.items(),
\* binds only local names, and returns a new dict
calculate_financial_components_in(memory, a) ==
    [memory EXCEPT !.financials = EngineCall("calculate_financial_components", <<a>>)]

\* calculate_appreciation_returns that keeps its totals in the record it is given
calculate_appreciation_returns_keeping_totals(memory, returns) ==
    [memory EXCEPT !.financials.annual_cashflow = returns.total_cashflow_over_horizon]

\* the memory after calculate_appreciation_returns(memory.financials, ...) has
\* returned `returns`: the function reads six keys of financials into local
\* names, binds only local names, and returns a new dict
calculate_appreciation_returns_in(memory, returns) ==
    memory

\* one run of the engine from the memory it finds: what the two functions
\* return, and the memory they leave; calculate_appreciation_returns is called
\* when calculate_financial_components has returned a record
EngineRun(memory, a, investment_horizon, hv, r, cfg) ==
    LET financials == calculate_financial_components_in(memory, a).financials
        called == financials # None /\ financials.raised = ""
        returns == IF called
                   THEN EngineCall("calculate_appreciation_returns",
                                   <<financials, investment_horizon, hv, r, cfg>>)
                   ELSE None
    IN  [financials |-> financials, appreciation_returns |-> returns,
         memory |-> IF called /\ returns.raised = ""
                    THEN calculate_appreciation_returns_in(
                             calculate_financial_components_in(memory, a), returns)
                    ELSE calculate_financial_components_in(memory, a)]

EngineCall(function, arguments) ==
    CASE function = "calculate_financial_components" ->
             calculate_financial_components(arguments[1])
      [] function = "calculate_appreciation_returns" ->
             appreciation_returns_of(arguments[1], arguments[2], arguments[3],
                                     arguments[4], arguments[5])
      [] function = "cashflow_analyzer.calculate_financial_components" ->
             basic_calculate_financial_components(arguments[1])
      [] function = "modified_cashflow_analyzer.calculate_financial_components" ->
             modified_calculate_financial_components(arguments[1])
      [] function = "run" ->
             EngineRun(arguments[1], arguments[2], arguments[3], arguments[4],
                       arguments[5], arguments[6])

\* a listing without a price, one with an interest-bearing loan and dynamic
\* CapEx off, one in dynamic mode
EngineCalls ==
    { CallArgs(0, None, None, 600, <<0, 30>>, None, 5, 8, 0, FALSE, 20, "good", None),
      CallArgs(2400, Tax_1200, R(1000), 600, <<1200, 1>>, R(600), 5, 8, 0, FALSE, 20,
               "good", None),
      CallArgs(2400, Tax_1200, R(1000), 600, <<0, 30>>, R(600), 5, 8, 40, TRUE, 20,
               "Poor", R(720)) }

\* the rate resolutions of these runs: with and without a manual rate, a
\* neighborhood the store and the configuration know and one they do not, the
\* historical lookup asked for or not, with and without a city
EngineResolveArgs ==
    { r \in ResolveArgs :
        /\ r.manual_appreciation_rate \in {None, Some(4)}
        /\ r.neighborhood_name \in {N_Ab, N_c}
        /\ r.use_historical_metric_name = Some(M5)
        /\ r.historical_db_path # None }

EngineHorizons == {2}

InitEngine ==
    /\ InitStore(MaxRowsResolve)
    /\ neighborhood_appreciation_config \in {JNull, JDict(N_Ab :> EntryFull(6) @@ DefaultKey :> EntryFull(3))}
    /\ InitCall

\* the first run, in the memory of the freshly imported module
RunEngine ==
    /\ pc = "idle"
    /\ \E a \in EngineCalls, r \in EngineResolveArgs, investment_horizon \in EngineHorizons :
         \E hv \in HistoricalOutcomes(hist_db, db_status, r) :
            /\ args' = [call |-> a, resolve |-> r, investment_horizon |-> investment_horizon]
            /\ historical_metric_value_raw' = hv
            /\ ret' = LET run == EngineCall("run", <<ModuleMemory, a, investment_horizon, hv, r,
                                                   neighborhood_appreciation_config>>)
                      IN  [memory |-> run.memory,
                           outputs |-> << [financials |-> run.financials,
                                           appreciation_returns |-> run.appreciation_returns] >>]
    /\ pc' = "ran_once"
    /\ UNCHANGED <<hist_db, db_status, neighborhood_appreciation_config>>

\* the second run: the same arguments, the store and the configuration as they
\* are, the memory as the first run left it; the store is the same file, and
\* sqlite3 answers the same query on the same file with the same row
RunEngineAgain ==
    /\ pc = "ran_once"
    /\ \E hv \in HistoricalOutcomes(hist_db, db_status, args.resolve) :
            /\ hv = historical_metric_value_raw
            /\ ret' = LET run == EngineCall("run", <<ret.memory, args.call, args.investment_horizon,
                                                   hv, args.resolve,
                                                   neighborhood_appreciation_config>>)
                      IN  [memory |-> run.memory,
                           outputs |-> Append(ret.outputs,
                                          [financials |-> run.financials,
                                           appreciation_returns |-> run.appreciation_returns])]
    /\ pc' = "ran_twice"
    /\ UNCHANGED <<hist_db, db_status, neighborhood_appreciation_config, args,
                   historical_metric_value_raw>>

NextEngine == RunEngine \/ RunEngineAgain

SpecEngine == InitEngine /\ [][NextEngine]_vars

-----------------------------------------------------------------------------
(* enrich_with_cashflow.py: main, one step at a time.  In this script ret    *)
(* holds the listings table as committed, the connection with the updates   *)
(* of its open transaction, the listings still to process and the counters; *)
(* args holds the command line, the configuration and the table as it was.  *)

\* the most listings in the table
MaxListings == 2

\* a row of listings: the columns the script selects
ListingRow(id, price, estimated_rent, estimated_monthly_cashflow) ==
    [id |-> id, address |-> id, price |-> price, tax_information |-> Tax_1200,
     estimated_rent |-> estimated_rent,
     estimated_monthly_cashflow |-> estimated_monthly_cashflow]

\* the tables: id is the primary key and address is unique; prices missing,
\* zero and positive, the cashflow not yet or already populated
ListingTables ==
    UNION { { [id \in 1..n |-> ListingRow(id, t[id][1], R(1000), t[id][2])] :
                t \in [1..n -> {None, R(0), R(2400)} \X {None, R(7)}] } :
            n \in 0..MaxListings }

\* the configuration files: unreadable or empty, without a rate, an
\* interest-free loan, and a loan whose payment cannot be computed
EnrichConfigs ==
    { None,
      [down_payment |-> R(600), rate |-> None, loan_term |-> 30,
       insurance |-> R(600), misc_monthly |-> R(50)],
      [down_payment |-> R(600), rate |-> R(0), loan_term |-> 30,
       insurance |-> R(600), misc_monthly |-> R(50)],
      [down_payment |-> R(600), rate |-> R(1200), loan_term |-> 0,
       insurance |-> R(600), misc_monthly |-> R(50)] }

\* the command lines
EnrichArguments ==
    [dry_run : BOOLEAN, limit : {None, Some(1)}, force_update : BOOLEAN,
     address : {None, Some(1)}]

\* the permutations of a set of rows, as sequences
Orderings(rows) ==
    { q \in [1..Cardinality(rows) -> rows] : \A i, j \in DOMAIN q : q[i] = q[j] => i = j }

\* fetch_listings_for_enrichment: the rows that match, in an order and, under
\* LIMIT, a selection that the query leaves to the database
fetch_listings_for_enrichment(listings, limit, force_update, specific_address) ==
    LET matching == { listings[id] : id \in
                        { id \in DOMAIN listings :
                            IF specific_address # None
                            THEN listings[id].address = specific_address[1]
                            ELSE force_update
                                 \/ listings[id].estimated_monthly_cashflow = None } }
    IN  IF limit = None \/ limit[1] = 0 THEN Orderings(matching)
        ELSE { SubSeq(q, 1, IF limit[1] < Len(q) THEN limit[1] ELSE Len(q)) :
                 q \in Orderings(matching) }

\* the call of calculate_financial_components (cashflow_analyzer.py) that main
\* makes for a listing
enrich_call_args(listing, config_defaults) ==
    [ purchase_price |-> listing.price, tax_info_raw |-> listing.tax_information,
      est_monthly_rent |-> listing.estimated_rent,
      down_payment_dollars |-> config_defaults.down_payment,
      annual_rate_percent |-> config_defaults.rate,
      loan_term_years |-> config_defaults.loan_term,
      annual_insurance |-> config_defaults.insurance,
      misc_monthly |-> config_defaults.misc_monthly ]

\* UPDATE listings SET estimated_monthly_cashflow = ? that leaves out WHERE id = ?
update_every_listing_cashflow(pending, listing_id, calculated_cashflow_value) ==
    [id \in 1..MaxListings |-> Some(calculated_cashflow_value)]

\* update_listing_cashflow when the UPDATE succeeds: the transaction of the
\* connection holds the new value of the row with this id
update_listing_cashflow(pending, listing_id, calculated_cashflow_value) ==
    [id \in DOMAIN pending \cup {listing_id} |->
        IF id = listing_id THEN Some(calculated_cashflow_value) ELSE pending[id]]

\* conn.commit(): the updates of the transaction reach the rows they name
commit(listings, pending) ==
    [id \in DOMAIN listings |->
        IF id \in DOMAIN pending
        THEN [listings[id] EXCEPT !.estimated_monthly_cashflow = pending[id][1]]
        ELSE listings[id]]

\* the state of main
EnrichState(listings, pending, listings_to_process, processed_count, updated_count, committed) ==
    [listings |-> listings, pending |-> pending,
     listings_to_process |-> listings_to_process,
     processed_count |-> processed_count, updated_count |-> updated_count,
     committed |-> committed]

\* before the script runs: a table, no connection
InitEnrich ==
    /\ hist_db = {}
    /\ db_status = "ok"
    /\ neighborhood_appreciation_config = JNull
    /\ pc = "idle"
    /\ historical_metric_value_raw = None
    /\ \E listings \in ListingTables :
          /\ args = [listings_before |-> listings]
          /\ ret = EnrichState(listings, <<>>, <<>>, 0, 0, FALSE)

\* main up to the loop: the arguments, the configuration and its required
\* keys, the connection and the listings to process
EnrichStart ==
    /\ pc = "idle"
    /\ \E a \in EnrichArguments, config_defaults \in EnrichConfigs :
          /\ args' = [listings_before |-> args.listings_before, args |-> a,
                      config_defaults |-> config_defaults]
          /\ IF config_defaults = None \/ config_defaults.rate = None
             THEN /\ pc' = "returned"
                  /\ ret' = ret
             ELSE \E listings_to_process \in
                        fetch_listings_for_enrichment(ret.listings, a.limit,
                                                      a.force_update, a.address) :
                     /\ ret' = [ret EXCEPT !.listings_to_process = listings_to_process]
                     /\ pc' = IF listings_to_process = <<>> THEN "returned" ELSE "loop"
    /\ UNCHANGED <<hist_db, db_status, neighborhood_appreciation_config,
                   historical_metric_value_raw>>

\* one pass of the loop over listings_to_process; an exception that
\* calculate_financial_components raises ends the script with the transaction
\* open, and an UPDATE that fails is reported and passed over
EnrichListing ==
    /\ pc = "loop"
    /\ ret.listings_to_process # <<>>
    /\ LET listing == Head(ret.listings_to_process)
           next == [ret EXCEPT !.listings_to_process = Tail(@),
                               !.processed_count = @ + 1]
           financials == EngineCall("cashflow_analyzer.calculate_financial_components",
                                    <<enrich_call_args(listing, args.config_defaults)>>)
       IN  IF listing.price = None \/ RLe(listing.price, R(0))
           THEN pc' = "loop" /\ ret' = next
           ELSE IF financials.raised # ""
           THEN pc' = "raised" /\ ret' = [next EXCEPT !.pending = <<>>]
           ELSE IF args.args.dry_run
           THEN pc' = "loop" /\ ret' = next
           ELSE /\ pc' = "loop"
                /\ \/ ret' = [next EXCEPT
                                !.pending = update_listing_cashflow(
                                                @, listing.id, financials.net_monthly_cashflow),
                                !.updated_count = @ + 1]
                   \/ ret' = next
    /\ UNCHANGED <<hist_db, db_status, neighborhood_appreciation_config, args,
                   historical_metric_value_raw>>

\* main after the loop: the commit of a live run that updated something, and
\* the close of the connection
EnrichFinish ==
    /\ pc = "loop"
    /\ ret.listings_to_process = <<>>
    /\ ret' = IF ~args.args.dry_run /\ ret.updated_count > 0
              THEN [ret EXCEPT !.listings = commit(@, ret.pending), !.pending = <<>>,
                               !.committed = TRUE]
              ELSE [ret EXCEPT !.pending = <<>>]
    /\ pc' = "returned"
    /\ UNCHANGED <<hist_db, db_status, neighborhood_appreciation_config, args,
                   historical_metric_value_raw>>

NextEnrich == EnrichStart \/ EnrichListing \/ EnrichFinish

SpecEnrich == InitEnrich /\ [][NextEnrich]_vars

-----------------------------------------------------------------------------
(* The three variants of calculate_financial_components on the same call *)

CalcFinancialComponentsVariants ==
    /\ pc = "idle"
    /\ \E a \in NonDynamicArgs :
          /\ args' = a
          /\ ret' = [appreciation_and_cashflow_analyzer |->
                         EngineCall("calculate_financial_components", <<a>>),
                     modified_cashflow_analyzer |->
                         EngineCall("modified_cashflow_analyzer.calculate_financial_components",
                                    <<a>>),
                     cashflow_analyzer |->
                         EngineCall("cashflow_analyzer.calculate_financial_components",
                                    <<a>>)]
    /\ pc' = "variants_computed"
    /\ UNCHANGED <<hist_db, db_status, neighborhood_appreciation_config,
                   historical_metric_value_raw>>

NextVariants == CalcFinancialComponentsVariants

SpecVariants == InitCashflow /\ [][NextVariants]_vars

-----------------------------------------------------------------------------
(* calculate_appreciation_returns on the loans of the projection *)

\* <<annual_interest_rate_percent, loan_term_years>>: interest-free loans over
\* 30 years, 1 year and no time, and loans at 100% and at 200% a month over one
\* and two years
ProjectedLoans == { <<0, 30>>, <<0, 1>>, <<0, 0>>, <<1200, 1>>, <<1200, 2>>, <<2400, 1>> }

\* the six keys calculate_appreciation_returns reads of the financials
ProjectedFinancials ==
    { [purchase_price |-> R(100), down_payment_amount |-> R(100 - loan_amount),
       loan_amount |-> R(loan_amount), annual_interest_rate_percent |-> R(loan[1]),
       loan_term_years |-> loan[2], annual_cashflow |-> R(annual_cashflow)] :
        loan_amount \in {0, 1, 60, 100}, loan \in ProjectedLoans,
        annual_cashflow \in {-60, 0, 120} }

\* a manual appreciation rate, and nothing else to resolve
ProjectedResolveArgs ==
    { r \in ResolveArgs :
        /\ r.manual_appreciation_rate # None
        /\ r.neighborhood_name = None
        /\ ~r.fetch_real_data_flag
        /\ r.use_historical_metric_name = None
        /\ r.historical_db_path = None
        /\ r.target_city_for_historical = None }

CalculateAppreciationReturns ==
    /\ pc = "idle"
    /\ \E financials \in ProjectedFinancials, investment_horizon \in 0..MaxHorizon,
          r \in ProjectedResolveArgs :
         \E hv \in HistoricalOutcomes(hist_db, db_status, r) :
            /\ args' = [financials |-> financials,
                        investment_horizon |-> investment_horizon, resolve |-> r]
            /\ historical_metric_value_raw' = hv
            /\ ret' = EngineCall("calculate_appreciation_returns",
                                 <<financials, investment_horizon, hv, r,
                                   neighborhood_appreciation_config>>)
    /\ pc' = "projected"
    /\ UNCHANGED <<hist_db, db_status, neighborhood_appreciation_config>>

NextProjection == CalculateAppreciationReturns

SpecProjection == InitScoring /\ [][NextProjection]_vars

-----------------------------------------------------------------------------
(* Properties of the rate resolution *)

Resolved == pc = "resolved"

Returned == pc = "resolved" /\ ret.raised = ""

\* what the static configuration supplies for the call when no earlier tier did
ConfigTier ==
    JsonDefaultStep(
        JsonNeighborhoodStep(ResolveStart, neighborhood_appreciation_config,
                             args.neighborhood_name),
        neighborhood_appreciation_config)

\* C1: the rate used follows manual override > historical value > static config
\* value > hardcoded default (0.0), for every call whose config holds ratings that
\* are numbers or texts
C1_PrecedenceDownToDefault ==
    (Resolved /\ ConfigTier.raised = "") =>
        /\ args.manual_appreciation_rate # None =>
               ret.annual_appreciation_rate_used = args.manual_appreciation_rate
        /\ (args.manual_appreciation_rate = None /\ historical_metric_value_raw # None) =>
               ret.annual_appreciation_rate_used = historical_metric_value_raw
        /\ ( /\ args.manual_appreciation_rate = None
             /\ historical_metric_value_raw = None
             /\ ConfigTier.eff_app_rate # None ) =>
               ret.annual_appreciation_rate_used = ConfigTier.eff_app_rate
        /\ ( /\ args.manual_appreciation_rate = None
             /\ historical_metric_value_raw = None
             /\ ConfigTier.eff_app_rate = None ) =>
               ret.annual_appreciation_rate_used = Some(0)

\* C2: every resolution ends with a numeric annual_appreciation_rate_used and no
\* error, and the rate is 0.0 when no tier supplies a value
C2_AlwaysDefinedRate ==
    (Resolved /\ ConfigTier.raised = "") =>
        /\ ret.raised = ""
        /\ ret.annual_appreciation_rate_used # None
        /\ ( /\ args.manual_appreciation_rate = None
             /\ historical_metric_value_raw = None
             /\ ConfigTier.eff_app_rate = None ) =>
               ret.annual_appreciation_rate_used = Some(0)

\* rows of the store that pass the filters on metric, property type, homes sold
\* and (when given) city
Eligible(a_metric, a_city) ==
    { r \in hist_db :
        /\ a_metric # None
        /\ r.metric_type = a_metric[1]
        /\ r.property_type = "Single Family Residential"
        /\ r.homes_sold >= 5
        /\ (a_city # None => Lower(r.city) = Lower(a_city)) }

NormalizedInput(name) == Replace(Lower(name), "_", " ")

\* the lookup of the call fails: store down, query error, unknown metric or no row
LookupFails ==
    \/ db_status # "ok"
    \/ args.use_historical_metric_name[1] \notin valid_metrics
    \/ args.neighborhood_name = None
    \/ \A r \in Eligible(args.use_historical_metric_name, args.target_city_for_historical) :
          ~Like(Lower(r.neighborhood_name), NormalizedInput(args.neighborhood_name))

\* C3: a failed historical lookup yields None and the resolution returns what it
\* returns with the historical tier disabled
C3_LookupFailureAdvances ==
    (Resolved /\ HistoricalAttempted(args) /\ LookupFails) =>
        /\ historical_metric_value_raw = None
        /\ \A hv \in HistoricalOutcomes(hist_db, db_status,
                                        [args EXCEPT !.fetch_real_data_flag = FALSE]) :
              ret = calculate_appreciation_returns(
                        hv, [args EXCEPT !.fetch_real_data_flag = FALSE],
                        neighborhood_appreciation_config)

C3_Witness ==
    /\ Returned
    /\ HistoricalAttempted(args)
    /\ db_status = "unreachable"
    /\ args.neighborhood_name = N_A_b
    /\ ret.source_of_appreciation_data.label = "JSON Config"

\* the rate an entry of the config holds, if float() accepts it
EntryRate(entry) ==
    IF entry.t = "dict" /\ "historical_appreciation" \in DOMAIN entry.d
    THEN LET j == entry.d["historical_appreciation"]
         IN  IF j.t = "num" THEN Some(j.v)
             ELSE IF j.t = "str" /\ j.s \in DOMAIN NumericText THEN Some(NumericText[j.s])
             ELSE None
    ELSE None

\* the long_term_outlook an entry reports, or the placeholder
EntryOutlook(entry, placeholder) ==
    IF "long_term_outlook" \in DOMAIN entry.d THEN entry.d["long_term_outlook"]
    ELSE JStr(placeholder)

ConfigEntry(key) ==
    IF neighborhood_appreciation_config.t = "dict"
       /\ key \in DOMAIN neighborhood_appreciation_config.d
    THEN neighborhood_appreciation_config.d[key]
    ELSE JNull

\* the spellings of the neighborhood the config is searched under
KeySpellings(name) == {name, Replace(name, "_", " "), Replace(name, " ", "_")}

TierNames ==
    { JStr("historical_db"), JStr("manual_override"), JStr("hardcoded_fallback"),
      JStr("script_default_fallback"), JStr("N/A (from JSON)"),
      JStr("N/A (from JSON default)") }

\* the tier source_of_appreciation_data names is the one whose value is the rate used
SourceNamesWinner ==
    LET src == ret.source_of_appreciation_data
        rate == ret.annual_appreciation_rate_used
    IN  \/ /\ src.label = "CLI Manual Rate Override"
           /\ args.manual_appreciation_rate # None
           /\ rate = args.manual_appreciation_rate
        \/ /\ src.label = "Historical DB"
           /\ src.metric = args.use_historical_metric_name[1]
           /\ args.manual_appreciation_rate = None
           /\ historical_metric_value_raw # None
           /\ rate = historical_metric_value_raw
        \/ /\ src.label = "JSON Config"
           /\ src.neighborhood = args.neighborhood_name
           /\ args.manual_appreciation_rate = None
           /\ historical_metric_value_raw = None
           /\ \E k \in KeySpellings(args.neighborhood_name) :
                 EntryRate(ConfigEntry(k)) # None /\ rate = EntryRate(ConfigEntry(k))
        \/ /\ src.label = "JSON Config (default)"
           /\ args.manual_appreciation_rate = None
           /\ historical_metric_value_raw = None
           /\ EntryRate(ConfigEntry(DefaultKey)) # None
           /\ rate = EntryRate(ConfigEntry(DefaultKey))
        \/ /\ src.label = "Script Hardcoded Fallback (0.0%)"
           /\ args.manual_appreciation_rate = None
           /\ historical_metric_value_raw = None
           /\ rate = Some(0)

\* C4 as stated: in every result both source_of_appreciation_data and
\* market_outlook_assessment name the tier whose value is the rate used
C4_LabelAndOutlookNameWinner ==
    Returned => (SourceNamesWinner /\ ret.market_outlook_assessment \in TierNames)

\* C4 amended: in every result source_of_appreciation_data names the tier whose
\* value is the rate used; market_outlook_assessment names that tier for the
\* historical, manual and fallback tiers, and for the two JSON tiers it is the
\* long_term_outlook of the entry used (a placeholder naming the tier without one)
C4_SourceNamesWinningTier ==
    Returned =>
        /\ SourceNamesWinner
        /\ LET src == ret.source_of_appreciation_data
               outlook == ret.market_outlook_assessment
           IN  /\ src.label = "CLI Manual Rate Override" => outlook = JStr("manual_override")
               /\ src.label = "Historical DB" => outlook = JStr("historical_db")
               /\ src.label = "Script Hardcoded Fallback (0.0%)" =>
                      outlook = JStr("hardcoded_fallback")
               /\ src.label = "JSON Config" =>
                      \E k \in KeySpellings(args.neighborhood_name) :
                          /\ EntryRate(ConfigEntry(k)) = ret.annual_appreciation_rate_used
                          /\ outlook = EntryOutlook(ConfigEntry(k), "N/A (from JSON)")
               /\ src.label = "JSON Config (default)" =>
                      outlook = EntryOutlook(ConfigEntry(DefaultKey), "N/A (from JSON default)")

\* a manual rate overrides a rate the JSON config had supplied
C4_Witness ==
    /\ Returned
    /\ args.manual_appreciation_rate = Some(0)
    /\ ConfigTier.eff_app_rate = Some(5)
    /\ ret.source_of_appreciation_data.label = "CLI Manual Rate Override"

\* C5: with the historical tier enabled and a neighborhood and metric given, the
\* store is queried with or without a city: when no city is given a usable row
\* matching on the neighborhood name alone supplies the rate
C5_QueriedWithoutCity ==
    ( /\ Resolved
      /\ args.fetch_real_data_flag
      /\ args.use_historical_metric_name # None
      /\ args.historical_db_path # None
      /\ args.neighborhood_name # None
      /\ args.target_city_for_historical = None
      /\ db_status = "ok"
      /\ \E r \in Eligible(args.use_historical_metric_name, None) :
            Lower(r.neighborhood_name) = NormalizedInput(args.neighborhood_name) ) =>
        /\ historical_metric_value_raw # None
        /\ args.manual_appreciation_rate = None =>
               ret.annual_appreciation_rate_used = historical_metric_value_raw

-----------------------------------------------------------------------------
(* Properties of the historical lookup *)

Fetched == pc = "fetched"

\* the value is that of a row of rows whose period no other row of rows exceeds
LatestOf(rows, hv) ==
    \E r \in rows : hv = Some(r.value) /\ \A q \in rows : q.period_end <= r.period_end

-----------------------------------------------------------------------------
(* Properties of the static configuration tier *)

\* the call reached the static configuration tier and returned
ConfigTierReturned ==
    /\ Returned
    /\ args.manual_appreciation_rate = None
    /\ historical_metric_value_raw = None
    /\ args.neighborhood_name # None
    /\ neighborhood_appreciation_config.t = "dict"

\* C7 as stated: exact key first, then the normalized key; the default entry is
\* used only when neither key yields a rate; an exact key's rate is never replaced
C7_DefaultOnlyWhenNoKeyHasRate ==
    ConfigTierReturned =>
        LET name == args.neighborhood_name
            rate == ret.annual_appreciation_rate_used
        IN  /\ EntryRate(ConfigEntry(name)) # None => rate = EntryRate(ConfigEntry(name))
            /\ ret.source_of_appreciation_data.label = "JSON Config (default)" =>
                   \A k \in KeySpellings(name) : EntryRate(ConfigEntry(k)) = None

\* a dict is non-empty
NonEmptyEntry(entry) == entry.t = "dict" /\ DOMAIN entry.d # {}

\* C7 amended: the entry taken is the exact key's, or the normalized key's when the
\* exact key has no entry or an empty one; the default entry is used only when
\* the entry taken yields no rate (even if the other spelling's entry holds one);
\* an exact key's rate is never replaced
C7_ConfigTierOrder ==
    ConfigTierReturned =>
        LET name == args.neighborhood_name
            rate == ret.annual_appreciation_rate_used
            label == ret.source_of_appreciation_data.label
            others == KeySpellings(name) \ {name}
        IN  /\ EntryRate(ConfigEntry(name)) # None =>
                   (rate = EntryRate(ConfigEntry(name)) /\ label = "JSON Config")
            /\ ( /\ ~NonEmptyEntry(ConfigEntry(name))
                 /\ \E k \in others : EntryRate(ConfigEntry(k)) # None ) =>
                   /\ label = "JSON Config"
                   /\ \E k \in others : rate = EntryRate(ConfigEntry(k))
            /\ label = "JSON Config (default)" =>
                   /\ EntryRate(ConfigEntry(name)) = None
                   /\ NonEmptyEntry(ConfigEntry(name))
                      \/ \A k \in others : EntryRate(ConfigEntry(k)) = None

\* the exact key's entry has no rate, the other spelling's has one, the default wins
C7_Witness ==
    /\ ConfigTierReturned
    /\ args.neighborhood_name = N_A_b
    /\ NonEmptyEntry(ConfigEntry(N_A_b))
    /\ EntryRate(ConfigEntry(N_A_b)) = None
    /\ EntryRate(ConfigEntry(N_Ab)) = Some(6)
    /\ ret.source_of_appreciation_data.label = "JSON Config (default)"
    /\ ret.annual_appreciation_rate_used = Some(3)

-----------------------------------------------------------------------------
(* Properties of the monthly cashflow components *)

\* one of the two variants of calculate_financial_components has been called
Computed == pc \in {"computed", "computed_modified"}

\* the call produced the dict of components
ComponentsReturned == Computed /\ ret # None /\ ret.raised = ""

\* what the variant that was called yields for the arguments a
VariantResult(a) ==
    IF pc = "computed" THEN calculate_financial_components(a)
    ELSE modified_calculate_financial_components(a)

Clamp(x, lo, hi) == IF RLt(x, lo) THEN lo ELSE IF RLt(hi, x) THEN hi ELSE x

\* C8: for a purchase price > 0 and any down payment, in both variants, the
\* returned loan_amount is purchase_price - clamp(down_payment, 0, purchase_price)
\* and down_payment_amount is the clamped down payment, so that
\* 0 <= loan_amount <= purchase_price and down_payment_amount + loan_amount =
\* purchase_price; a down payment out of range signals no error: the call yields
\* exactly what it yields for the clamped down payment
C8_LoanIsPriceLessClampedDown ==
    (Computed /\ RLt(R(0), args.purchase_price)) =>
        LET price == args.purchase_price
            clamped == Clamp(args.down_payment_dollars, R(0), price)
        IN  /\ ret # None
            /\ ret = VariantResult([args EXCEPT !.down_payment_dollars = clamped])
            /\ ret.raised = "" =>
                   /\ ret.down_payment_amount = clamped
                   /\ ret.loan_amount = RSub(price, clamped)
                   /\ RLe(R(0), ret.loan_amount)
                   /\ RLe(ret.loan_amount, price)
                   /\ RAdd(ret.down_payment_amount, ret.loan_amount) = price

\* a negative down payment: nothing down, the whole price borrowed
C8_Witness ==
    /\ ComponentsReturned
    /\ RLt(args.down_payment_dollars, R(0))
    /\ ret.down_payment_amount = R(0)
    /\ ret.loan_amount = args.purchase_price
    /\ RLt(R(0), ret.monthly_p_and_i)

\* C9: with use_dynamic_capex = False, in both variants, the returned
\* monthly_property_mgmt, monthly_maintenance, monthly_capex and utilities_monthly
\* are 0, effective_rent_after_vacancy is the estimated rent unchanged, and
\* total_monthly_expenses = monthly_p_and_i + monthly_taxes + monthly_insurance +
\* misc_monthly, whatever the vacancy, management and utilities parameters
C9_NonDynamicReservesAreZero ==
    (ComponentsReturned /\ ~args.use_dynamic_capex) =>
        /\ ret.monthly_property_mgmt = R(0)
        /\ ret.monthly_maintenance = R(0)
        /\ ret.monthly_capex = R(0)
        /\ ret.utilities_monthly = R(0)
        /\ ret.effective_rent_after_vacancy =
               (IF args.est_monthly_rent # None THEN args.est_monthly_rent ELSE R(0))
        /\ ret.total_monthly_expenses =
               RAdd(RAdd(RAdd(ret.monthly_p_and_i, ret.monthly_taxes),
                         ret.monthly_insurance), args.misc_monthly)

\* C10: with use_dynamic_capex = True, in both variants,
\* effective_rent_after_vacancy = rent * (1 - vacancy_rate_pct / 100),
\* monthly_property_mgmt is the fee percentage of that post-vacancy rent,
\* total_monthly_expenses = P&I + taxes + insurance + misc + property management +
\* maintenance + CapEx + utilities, and net_monthly_cashflow =
\* effective_rent_after_vacancy - total_monthly_expenses
C10_DynamicModeFormulas ==
    (ComponentsReturned /\ args.use_dynamic_capex) =>
        LET rent == IF args.est_monthly_rent # None THEN args.est_monthly_rent ELSE R(0)
            after_vacancy == RMul(rent, RSub(R(1), RDiv(args.vacancy_rate_pct, R(100))))
        IN  /\ ret.effective_rent_after_vacancy = after_vacancy
            /\ ret.monthly_property_mgmt =
                   RDiv(RMul(after_vacancy, args.property_mgmt_fee_pct), R(100))
            /\ ret.total_monthly_expenses =
                   RAdd(RAdd(RAdd(RAdd(RAdd(RAdd(RAdd(ret.monthly_p_and_i, ret.monthly_taxes),
                                                  ret.monthly_insurance), args.misc_monthly),
                                       ret.monthly_property_mgmt), ret.monthly_maintenance),
                             ret.monthly_capex), ret.utilities_monthly)
            /\ ret.utilities_monthly = args.utilities_monthly
            /\ ret.net_monthly_cashflow =
                   RSub(ret.effective_rent_after_vacancy, ret.total_monthly_expenses)

\* rent 1000 at 5% vacancy and an 8% fee: 950 after vacancy, 76 for management,
\* with utilities, maintenance and CapEx reserves in the total
C10_Witness ==
    /\ ComponentsReturned
    /\ args.use_dynamic_capex
    /\ ret.effective_rent_after_vacancy = R(950)
    /\ ret.monthly_property_mgmt = R(76)
    /\ ret.utilities_monthly = R(40)
    /\ RLt(R(0), ret.monthly_maintenance)
    /\ RLt(R(0), ret.monthly_capex)
    /\ RLt(R(0), ret.monthly_p_and_i)

\* one of the three variants of calculate_financial_components has been called
ComputedAny == pc \in {"computed", "computed_modified", "computed_basic"}

\* what the variant that was called yields for the arguments a
AnyVariantResult(a) ==
    CASE pc = "computed" -> calculate_financial_components(a)
      [] pc = "computed_modified" -> modified_calculate_financial_components(a)
      [] pc = "computed_basic" -> basic_calculate_financial_components(a)

\* the tax text of the call is missing, empty or holds no amount
TaxUnparsed == args.tax_info_raw \in {None, Tax_TBD}

\* C13: in the three variants, for a valid price, a tax text that is missing,
\* empty or unparsable and a missing rent never make
\* calculate_financial_components fail: the call yields what the call with a
\* rent of 0 yields, the result has monthly_taxes = 0 and no annual_taxes, the
\* total expenses are those of the call with a parsable text less its monthly
\* taxes, and the call raises only if the call with a parsable text and a rent
\* raises as well
C13_TaxAndRentRecoveredLocally ==
    (ComputedAny /\ args.purchase_price # None /\ RLt(R(0), args.purchase_price)) =>
        /\ ret # None
        /\ args.est_monthly_rent = None =>
               /\ ret = AnyVariantResult([args EXCEPT !.est_monthly_rent = R(0)])
               /\ ret.raised = "" => ret.estimated_monthly_rent = R(0)
        /\ (TaxUnparsed /\ ret.raised = "") =>
               /\ ret.monthly_taxes = R(0)
               /\ ret.annual_taxes = None
               /\ ret.total_monthly_expenses =
                      RSub(AnyVariantResult([args EXCEPT !.tax_info_raw = Tax_1200])
                               .total_monthly_expenses, R(100))
        /\ ret.raised =
               AnyVariantResult([args EXCEPT !.tax_info_raw = Tax_1200,
                                             !.est_monthly_rent = R(1000)]).raised

C13_Witness ==
    /\ pc = "computed_basic"
    /\ args.tax_info_raw = Tax_TBD
    /\ args.est_monthly_rent = None
    /\ ret # None
    /\ ret.raised = ""
    /\ ret.monthly_taxes = R(0)
    /\ RLt(ret.net_monthly_cashflow, R(0))

-----------------------------------------------------------------------------
(* Properties of the whole analysis *)

Analysed == pc = "analysed"

\* the price of the listing is missing, zero or negative
InvalidPrice(price) == price = None \/ RLe(price, R(0))

Projected == Analysed /\ ret.raised = "" /\ ret.appreciation_returns # None

\* the loan balance is the whole principal when no year has passed, and 0 once
\* the payments made reach the number of payments of the term
BalanceAtStartAndAfterTerm ==
    /\ args.args_dict.investment_horizon = 0 =>
           ret.appreciation_returns.remaining_loan_balance = ret.financials.loan_amount
    /\ args.args_dict.investment_horizon * 12 >= args.args_dict.loan_term * 12 =>
           ret.appreciation_returns.remaining_loan_balance = R(0)

\* C14 as stated: for every principal, rate >= 0 and term, the remaining balance
\* is the full principal at horizon 0 and 0 whenever payments_made >=
\* term_years * 12
C14_BalanceForEveryTerm == Projected => BalanceAtStartAndAfterTerm

\* C14, amended: for every principal, rate >= 0 and term > 0 the remaining
\* balance is the full principal at horizon 0 and 0 whenever payments_made >=
\* term_years * 12; for a term of 0 the zero-rate loan has no payment and its
\* balance stays at the full principal at every horizon
C14_BalanceForPositiveTerm ==
    Projected =>
        /\ args.args_dict.loan_term > 0 => BalanceAtStartAndAfterTerm
        /\ args.args_dict.loan_term = 0 =>
               ret.appreciation_returns.remaining_loan_balance = ret.financials.loan_amount

C14_Witness ==
    /\ Projected
    /\ args.args_dict.rate = R(1200)
    /\ args.args_dict.loan_term = 1
    /\ args.args_dict.investment_horizon = 2
    /\ ret.financials.loan_amount = R(1800)
    /\ ret.appreciation_returns.remaining_loan_balance = R(0)

\* the analysis returned the financial components
ComponentsComputed == Analysed /\ ret.raised = "" /\ ret.financials # None

\* annualized_roi = 0: the root of 1, less 1
AnnualizedIsZero == ret.appreciation_returns.annualized_roi_on_equity = Annualized(R(1), 1)

\* C16: the guarded divisions return 0 and do not raise: monthly P&I is 0 when
\* the principal is <= 0; cash_on_cash_roi and total_roi_percent_on_equity are
\* 0 when the clamped down payment is <= 0; annualized_roi_on_equity is 0 when
\* the down payment is <= 0, the horizon is <= 0, or down payment + total
\* profit is <= 0; and a run whose payment formula is defined (no principal, a
\* term > 0, or no interest) computes the components and divides by zero
\* nowhere
C16_GuardsReturnZero ==
    /\ ComponentsComputed =>
          /\ RLe(ret.financials.loan_amount, R(0)) =>
                 ret.financials.monthly_p_and_i = R(0)
          /\ RLe(ret.financials.down_payment_amount, R(0)) =>
                 ret.financials.cash_on_cash_roi = R(0)
    /\ Projected =>
          /\ RLe(ret.financials.down_payment_amount, R(0)) =>
                 /\ ret.appreciation_returns.total_roi_percent_on_equity = R(0)
                 /\ AnnualizedIsZero
          /\ args.args_dict.investment_horizon <= 0 => AnnualizedIsZero
          /\ RLe(RAdd(ret.financials.down_payment_amount,
                      ret.appreciation_returns.total_profit), R(0)) => AnnualizedIsZero
    /\ (/\ Analysed
        /\ ~InvalidPrice(args.property_data.price)
        /\ \/ RLe(args.property_data.price, args.args_dict.down_payment)
           \/ args.args_dict.loan_term > 0
           \/ args.args_dict.rate = R(0)) =>
          /\ ret.raised # "ZeroDivisionError"
          /\ ret.financials # None

C16_Witness ==
    /\ Projected
    /\ args.args_dict.down_payment = R(-100)
    /\ args.args_dict.investment_horizon = 2
    /\ ret.financials.down_payment_amount = R(0)
    /\ ret.financials.cash_on_cash_roi = R(0)
    /\ ret.appreciation_returns.total_roi_percent_on_equity = R(0)
    /\ AnnualizedIsZero

\* the end value of the equity is not positive and the annualized ROI is 0
C16_WitnessNoEndValue ==
    /\ Projected
    /\ RLt(R(0), ret.financials.down_payment_amount)
    /\ args.args_dict.investment_horizon > 0
    /\ RLe(RAdd(ret.financials.down_payment_amount,
                ret.appreciation_returns.total_profit), R(0))
    /\ AnnualizedIsZero

-----------------------------------------------------------------------------
(* Properties of the helper functions *)

\* the first numeral of a text that has a digit: from its first digit, the
\* digits and thousands separators that follow and an optional fraction, the
\* separators removed
FirstNumeral(text) ==
    LET first == CHOOSE i \in 1..Len(text) :
                     IsDigit(text[i]) /\ \A j \in 1..(i - 1) : ~IsDigit(text[j])
        runEnd == RunEnd(text, first, Digits \cup {","})
        fracEnd == IF runEnd + 2 <= Len(text) /\ text[runEnd + 1] = "."
                      /\ IsDigit(text[runEnd + 2])
                   THEN RunEnd(text, runEnd + 2, Digits) ELSE runEnd
    IN  FloatOfGroup(SubSeq(text, first, fracEnd))

\* C12: for every tax text that contains a numeral, parse_tax_amount returns
\* the first numeral of the text with its thousands separators removed, and
\* monthly_taxes is that figure divided by 12; for a text without any numeral
\* it returns nothing and monthly_taxes is 0
C12_FirstNumeralOverTwelve ==
    pc = "tax_parsed" =>
        IF \E i \in 1..Len(args.tax_info_str) : IsDigit(args.tax_info_str[i])
        THEN /\ ret.annual_tax = FirstNumeral(args.tax_info_str)
             /\ ret.components.annual_taxes = FirstNumeral(args.tax_info_str)
             /\ ret.components.monthly_taxes =
                    RDiv(FirstNumeral(args.tax_info_str), R(12))
        ELSE /\ ret.annual_tax = None
             /\ ret.components.annual_taxes = None
             /\ ret.components.monthly_taxes = R(0)

\* the payment is ready and the call was one the amortization rule speaks of
PaymentComputed ==
    /\ pc = "payment_computed"
    /\ args.principal > 0
    /\ args.term_years > 0

\* C15: for a principal > 0, a rate >= 0 and a term > 0,
\* calculate_mortgage_payment returns a payment (it does not raise) whose total
\* over the term, payment * term * 12, is at least the principal, and is the
\* principal when the rate is 0, both up to a relative rounding error of 10^-9
C15_TotalPaidCoversPrincipal ==
    PaymentComputed =>
        /\ ret.raised = ""
        /\ ~FLessRatio(ret.v, BigMul(BigOfNat(args.principal), BigOfNat(999999999)),
                       BigMul(BigOfNat(args.term_years * 12), BigOfNat(1000000000)))
        /\ args.annual_rate_percent = FZero =>
               FLessRatio(ret.v, BigMul(BigOfNat(args.principal), BigOfNat(1000000001)),
                          BigMul(BigOfNat(args.term_years * 12), BigOfNat(1000000000)))

\* Scenario C: 1,500 square feet, 20 years old, in good condition
ScenarioC ==
    /\ pc = "capex_reserved"
    /\ args.sqft = R(1500)
    /\ args.age = 20
    /\ args.condition = "good"

\* the component of the given name in a reserves dict
ComponentOf(reserves, name) ==
    reserves.components[CHOOSE k \in DOMAIN reserves.components :
                            reserves.components[k].name = name]

\* C17 as stated: in Scenario C the roof component's monthly reserve computed
\* by calculate_capex_reserves (both variants) is $37.81 to the cent
C17_RoofReserveAsStated ==
    ScenarioC =>
        /\ RLe(Rat(37805, 1000), ComponentOf(ret.reserves, "roof").monthly_reserve)
        /\ RLt(ComponentOf(ret.reserves, "roof").monthly_reserve, Rat(37815, 1000))
        /\ ComponentOf(ret.modified_reserves, "roof").monthly_reserve =
               ComponentOf(ret.reserves, "roof").monthly_reserve

\* C17, amended: in Scenario C the roof component's monthly reserve computed by
\* calculate_capex_reserves (both variants) is (5.5 * 1500) * 1.0 * 1.1 / 25 / 12,
\* which is $30.25
C17_RoofReserve ==
    ScenarioC =>
        /\ ComponentOf(ret.reserves, "roof").monthly_reserve =
               RDiv(RDiv(RMul(RMul(RMul(Rat(55, 10), R(1500)), R(1)), Rat(11, 10)),
                         R(25)), R(12))
        /\ ComponentOf(ret.reserves, "roof").monthly_reserve = Rat(3025, 100)
        /\ ret.modified_reserves.raised = ""
        /\ ComponentOf(ret.modified_reserves, "roof").monthly_reserve = Rat(3025, 100)

C17_Witness ==
    /\ ScenarioC
    /\ args.purchase_price = R(2400)
    /\ ret.age_mult = Rat(11, 10)
    /\ ret.cond_mult = R(1)
    /\ ComponentOf(ret.reserves, "roof").annual_reserve = R(363)


\* calculate_capex_reserves was called without usable square feet
NoSquareFeet == pc = "capex_reserved" /\ (args.sqft = None \/ RLe(args.sqft, R(0)))

\* the annual reserve on the base cost alone: the base cost (0 without one)
\* times the multipliers, over the adjusted lifespan
BaseCostReserve(details, age_mult, cond_mult) ==
    RDiv(RMul(RMul(IF details.cost_base # None THEN details.cost_base ELSE R(0), cond_mult),
              age_mult),
         RMul(R(details.lifespan), RDiv(R(1), cond_mult)))

\* every component of the reserves is reserved on its base cost alone, none
\* below 0, and the totals are those of the base costs
FallsBackToBaseCost(reserves) ==
    /\ \A k \in 1..Len(CAPEX_COMPONENTS) :
          /\ reserves.components[k].annual_reserve =
                 BaseCostReserve(CAPEX_COMPONENTS[k], ret.age_mult, ret.cond_mult)
          /\ reserves.components[k].monthly_reserve =
                 RDiv(reserves.components[k].annual_reserve, R(12))
          /\ CAPEX_COMPONENTS[k].cost_base = None =>
                 reserves.components[k].annual_reserve = R(0)
          /\ RLe(R(0), reserves.components[k].annual_reserve)
    /\ reserves.total_annual = SumAnnualReserve(reserves.components, Len(CAPEX_COMPONENTS))
    /\ RLe(R(0), reserves.total_annual)

\* C19: with square_feet missing or non-positive, calculate_capex_reserves (of
\* appreciation_and_cashflow_analyzer.py and of modified_cashflow_analyzer.py)
\* does not fail; every per-square-foot term contributes 0, a component with a
\* base cost is reserved on the base cost alone, a component with only a
\* per-square-foot cost contributes 0, and no component's reserve is negative.
C19_NoSquareFeetFallsBackToBaseCost ==
    NoSquareFeet =>
        /\ FallsBackToBaseCost(ret.reserves)
        /\ ret.modified_reserves.raised = ""
        /\ FallsBackToBaseCost(ret.modified_reserves)

\* the part of C19 about appreciation_and_cashflow_analyzer.py alone
C19_AnalyzerFallsBackToBaseCost == NoSquareFeet => FallsBackToBaseCost(ret.reserves)

\* the part of C19 about modified_cashflow_analyzer.py for square_feet = 0
C19_ModifiedFallsBackAtZero ==
    NoSquareFeet /\ args.sqft = R(0) =>
        ret.modified_reserves.raised = "" /\ FallsBackToBaseCost(ret.modified_reserves)

\* the multipliers of a call of calculate_capex_reserves were computed
MultipliersComputed == pc = "capex_reserved"

\* the ages compared with the age of the call
Ages == (-3..60) \cup {1000}

\* the conditions from best to worst
ConditionOrder == <<"excellent", "good", "fair", "poor">>

\* C20: get_age_multiplier is the step function <= 5 -> 0.6, <= 15 -> 0.9,
\* <= 30 -> 1.1, <= 50 -> 1.3, else 1.5, never decreasing with age, and puts a
\* negative age into the lowest and a very large one into the highest bucket
\* without an error; the condition multiplier is 0.7, 1.0, 1.3, 1.7 for
\* excellent, good, fair, poor, never decreasing in that order, and 1.0 (that
\* of 'good') for any condition string that is not recognized.
C20_MultipliersAreMonotoneSteps ==
    MultipliersComputed =>
        /\ args.age <= 5 => ret.age_mult = Rat(6, 10)
        /\ args.age > 5 /\ args.age <= 15 => ret.age_mult = Rat(9, 10)
        /\ args.age > 15 /\ args.age <= 30 => ret.age_mult = Rat(11, 10)
        /\ args.age > 30 /\ args.age <= 50 => ret.age_mult = Rat(13, 10)
        /\ args.age > 50 => ret.age_mult = Rat(15, 10)
        /\ \A younger \in Ages :
              younger <= args.age => RLe(get_age_multiplier(younger), ret.age_mult)
        /\ \A k \in 1..4 :
              LowerWord(args.condition) = ConditionOrder[k] =>
                  /\ ret.cond_mult = <<Rat(7, 10), R(1), Rat(13, 10), Rat(17, 10)>>[k]
                  /\ \A better \in 1..k :
                        RLe(ConditionMultiplier(ConditionOrder[better]), ret.cond_mult)
        /\ (\A k \in 1..4 : LowerWord(args.condition) # ConditionOrder[k]) =>
              ret.cond_mult = R(1) /\ ret.cond_mult = ConditionMultiplier("good")

\* a property older than any bucket bound, in a condition no table entry names
C20_Witness ==
    /\ MultipliersComputed
    /\ args.age = 1000 /\ ret.age_mult = Rat(15, 10)
    /\ args.condition = "shabby" /\ ret.cond_mult = R(1)

\* a negative age, and a condition recognized once it is lower-cased
C20_WitnessLowest ==
    /\ MultipliersComputed
    /\ args.age = -3 /\ ret.age_mult = Rat(6, 10)
    /\ args.condition = "Poor" /\ ret.cond_mult = Rat(17, 10)

-----------------------------------------------------------------------------
(* Properties of the cashflow computation in binary64 *)

\* the call of Scenario A, to either calculate_financial_components
ScenarioA ==
    /\ pc \in {"computed_binary64", "computed_basic_binary64"}
    /\ args.purchase_price = 400000 /\ args.down_payment_dollars = 80000
    /\ args.annual_rate_percent = FOfInt(13, -1) /\ args.loan_term_years = 30
    /\ args.tax_info_raw = Tax_4800 /\ args.est_monthly_rent = FOfInt(2500, 0)
    /\ args.misc_monthly = 50 /\ args.annual_insurance = FOfInt(1200, 0)
    /\ ~args.use_dynamic_capex

\* x rounds to the amount of sign sgn and of thousandths / 1000 dollars, to
\* the cent
RoundsToCents(x, sgn, thousandths) ==
    /\ x.sgn = sgn
    /\ ~FLessRatio(x, BigOfNat(thousandths - 5), <<1000>>)
    /\ FLessRatio(x, BigOfNat(thousandths + 5), <<1000>>)

\* C18: Scenario A (price 400,000, down payment 80,000, 6.5% over 30 years,
\* tax text '$4,800 / Annually', rent 2,500, misc 50, insurance 1,200, dynamic
\* CapEx off) yields, in cashflow_analyzer.py and in
\* appreciation_and_cashflow_analyzer.py, loan_amount = 320,000, monthly_taxes
\* = 400, monthly_insurance = 100, and to the cent monthly_p_and_i = 2,022.62,
\* total_monthly_expenses = 2,572.62 and net_monthly_cashflow = -72.62.
C18_ScenarioA ==
    ScenarioA =>
        /\ ret # None /\ ret.raised = ""
        /\ ret.loan_amount = 320000
        /\ ret.monthly_taxes = FOfInt(400, 0)
        /\ ret.monthly_insurance = FOfInt(100, 0)
        /\ RoundsToCents(ret.monthly_p_and_i, 1, 2022620)
        /\ RoundsToCents(ret.total_monthly_expenses, 1, 2572620)
        /\ RoundsToCents(ret.net_monthly_cashflow, -1, 72620)

\* Scenario A was computed by appreciation_and_cashflow_analyzer.py: the loan
\* is 320,000 and the cashflow is negative
C18_Witness ==
    /\ ScenarioA /\ pc = "computed_binary64"
    /\ ret # None /\ ret.raised = ""
    /\ ret.loan_amount = 320000
    /\ FLess(ret.net_monthly_cashflow, FZero)

\* Scenario A was computed by cashflow_analyzer.py
C18_WitnessBasic ==
    /\ ScenarioA /\ pc = "computed_basic_binary64"
    /\ ret # None /\ ret.raised = ""
    /\ ret.total_monthly_expenses = FAdd(ret.monthly_p_and_i, FOfInt(550, 0))

-----------------------------------------------------------------------------
(* Properties of the deal score *)

DealScored == pc = "scored"

\* the normalized score before the clamp
Unclamped(overall_score) == RMul(RDiv(RAdd(overall_score, R(7)), R(16)), R(10))

\* C21: for every combination of net monthly cashflow, cash-on-cash ROI, cap
\* rate (or none) and annualized ROI, the sum of the four bucket scores lies in
\* [-7, 9], so the normalized score (sum + 7) / 16 * 10 lies in [0, 10] and is
\* what the clamp returns; the sum -7 maps to 0 and the sum 9 maps to 10.
C21_SumWithinNormalizationRange ==
    DealScored =>
        /\ ret.overall_score =
               RAdd(RAdd(RAdd(ret.cf.score, ret.coc.score), ret.cap.score),
                    ret.annual_roi.score)
        /\ RLe(R(-7), ret.overall_score) /\ RLe(ret.overall_score, R(9))
        /\ RLe(R(0), Unclamped(ret.overall_score))
        /\ RLe(Unclamped(ret.overall_score), R(10))
        /\ ret.normalized_score = Unclamped(ret.overall_score)
        /\ (ret.overall_score = R(-7) => ret.normalized_score = R(0))
        /\ (ret.overall_score = R(9) => ret.normalized_score = R(10))

\* the worst deal was scored: every metric in its lowest bucket, the sum -7
C21_Witness ==
    /\ DealScored /\ args.use_dynamic_capex
    /\ ret.overall_score = R(-7) /\ ret.normalized_score = R(0)

\* the best deal was scored: every metric in its highest bucket, the sum 9
C21_WitnessBest ==
    /\ DealScored /\ args.use_dynamic_capex
    /\ ret.overall_score = R(9) /\ ret.normalized_score = R(10)

\* the annualized ROI that was scored is above 15%, is negative
AnnualizedAbove15 == AnnualizedGt(args.annualized_roi_on_equity, 15)

AnnualizedNegative == RLt(args.annualized_roi_on_equity.base, R(1))

\* C22 as stated: the annualized-total-ROI scoring function gives an annualized
\* ROI above 15% the label 'Excellent' with score 2.5, and a negative
\* annualized ROI the label 'Very Poor'.
C22_ExcellentScores5Halves ==
    DealScored =>
        /\ AnnualizedAbove15 => ret.annual_roi = Scored(Rat(5, 2), "Excellent")
        /\ AnnualizedNegative => ret.annual_roi.rating = "Very Poor"

\* C22: the annualized-total-ROI scoring function gives an annualized ROI above
\* 15% the label 'Excellent' with score 2.0, and a negative annualized ROI the
\* label 'Very Poor' (with score -1.0).
C22_ExcellentScores2 ==
    DealScored =>
        /\ AnnualizedAbove15 => ret.annual_roi = Scored(R(2), "Excellent")
        /\ AnnualizedNegative => ret.annual_roi = Scored(R(-1), "Very Poor")

\* an annualized ROI of 20% was scored
C22_Witness ==
    /\ DealScored /\ AnnualizedAbove15
    /\ args.annualized_roi_on_equity = Annualized(Rat(6, 5), 1)
    /\ ret.annual_roi.rating = "Excellent"

\* an annualized ROI of -50% was scored
C22_WitnessNegative ==
    /\ DealScored /\ AnnualizedNegative /\ ret.annual_roi.rating = "Very Poor"

\* C23: the cap-rate score is the neutral 0 whenever dynamic mode is disabled
\* or the cap rate is unavailable, so in non-dynamic mode the overall score
\* depends only on the cashflow, cash-on-cash and annualized-ROI scores: it is
\* their sum, and it is the same for every cap rate.
C23_CapRateNeutralWhenOff ==
    DealScored /\ (~args.use_dynamic_capex \/ args.cap_rate = None) =>
        /\ ret.cap.score = R(0)
        /\ ret.overall_score =
               RAdd(RAdd(ret.cf.score, ret.coc.score), ret.annual_roi.score)
        /\ ~args.use_dynamic_capex =>
               \A cap \in CapValues :
                   LET other == deal_score_of([args EXCEPT !.cap_rate = cap])
                   IN  /\ other.overall_score = ret.overall_score
                       /\ other.normalized_score = ret.normalized_score

\* a cap rate of 8%, 'Excellent' in dynamic mode, was scored with the mode off
C23_Witness ==
    /\ DealScored /\ ~args.use_dynamic_capex /\ args.cap_rate = R(8)
    /\ ret.cap.score = R(0)
    /\ score_cap_rate(args.cap_rate, TRUE).score = R(2)

\* no cap rate was scored in dynamic mode
C23_WitnessUnavailable ==
    /\ DealScored /\ args.use_dynamic_capex /\ args.cap_rate = None
    /\ ret.cap.score = R(0)

\* the qualitative ratings from worst to best
RatingRank(overall_rating) ==
    CASE overall_rating = "Poor Investment Prospect" -> 0
      [] overall_rating = "Marginal Investment, Consider Carefully" -> 1
      [] overall_rating = "Fair Investment Prospect, Potential Upsides" -> 2
      [] overall_rating = "Good Investment Prospect" -> 3
      [] overall_rating = "Excellent Investment Prospect!" -> 4

\* x <= y for two annualized percentages
AnnualizedLe(x, y) == RLe(RPow(x.base, y.years), RPow(y.base, x.years))

\* the deal with the metrics m scores and rates no worse than the scored one
NoWorse(m) ==
    LET better == deal_score_of(m)
    IN  /\ RLe(ret.cf.score, better.cf.score)
        /\ RLe(ret.coc.score, better.coc.score)
        /\ RLe(ret.cap.score, better.cap.score)
        /\ RLe(ret.annual_roi.score, better.annual_roi.score)
        /\ RLe(ret.normalized_score, better.normalized_score)
        /\ RatingRank(ret.overall_rating) <= RatingRank(better.overall_rating)

\* C30: each of the four scoring functions is non-decreasing in its metric, so
\* improving one metric with the others fixed never lowers the normalized
\* overall score nor moves the qualitative rating (Excellent >= 8.5, Good >=
\* 6.5, Fair >= 4, Marginal >= 2, else Poor) to a worse label.
C30_ScoresAreMonotone ==
    DealScored =>
        /\ \A v \in CashflowValues :
               RLe(args.net_monthly_cashflow, v) =>
                   NoWorse([args EXCEPT !.net_monthly_cashflow = v])
        /\ \A v \in CocValues :
               RLe(args.cash_on_cash_roi, v) =>
                   NoWorse([args EXCEPT !.cash_on_cash_roi = v])
        /\ \A v \in CapValues \ {None} :
               args.cap_rate # None /\ RLe(args.cap_rate, v) =>
                   NoWorse([args EXCEPT !.cap_rate = v])
        /\ \A v \in AnnualizedValues :
               AnnualizedLe(args.annualized_roi_on_equity, v) =>
                   NoWorse([args EXCEPT !.annualized_roi_on_equity = v])
        /\ ret.overall_rating =
               IF RLe(Rat(17, 2), ret.normalized_score) THEN "Excellent Investment Prospect!"
               ELSE IF RLe(Rat(13, 2), ret.normalized_score) THEN "Good Investment Prospect"
               ELSE IF RLe(R(4), ret.normalized_score) THEN "Fair Investment Prospect, Potential Upsides"
               ELSE IF RLe(R(2), ret.normalized_score) THEN "Marginal Investment, Consider Carefully"
               ELSE "Poor Investment Prospect"

\* a cashflow of -$50 was scored with the other metrics in their top buckets,
\* rated 'Good'; a cashflow above $300 makes it 'Excellent'
C30_Witness ==
    /\ DealScored /\ args.use_dynamic_capex
    /\ args.net_monthly_cashflow = R(-50) /\ ret.cf.score = Rat(-1, 2)
    /\ ret.overall_score = R(6)
    /\ ret.overall_rating = "Good Investment Prospect"
    /\ deal_score_of([args EXCEPT !.net_monthly_cashflow = R(400)]).overall_rating
           = "Excellent Investment Prospect!"

-----------------------------------------------------------------------------
(* Properties of the engine run twice *)

RanOnce == pc = "ran_once"

RanTwice == pc = "ran_twice"

-----------------------------------------------------------------------------
(* Properties of enrich_with_cashflow.py *)

EnrichStarted == pc \in {"loop", "raised", "returned"}

\* net_monthly_cashflow of the listing that had this id when the run started
ComputedCashflow(id) ==
    EngineCall("cashflow_analyzer.calculate_financial_components",
               <<enrich_call_args(args.listings_before[id], args.config_defaults)>>
              ).net_monthly_cashflow

\* the listing has no price, or one that is not positive
PriceUnusable(listing) == listing.price = None \/ RLe(listing.price, R(0))

\* C25: a run of enrich_with_cashflow with --dry-run makes no change to the
\* database for any set of listings: no listing's estimated_monthly_cashflow is
\* updated and nothing is committed; in a live run a listing's stored cashflow
\* changes only to the net_monthly_cashflow computed for that same listing, and
\* listings with a missing or non-positive price are left unchanged.
C25_DryRunChangesNothing ==
    EnrichStarted =>
        /\ DOMAIN ret.listings = DOMAIN args.listings_before
        /\ args.args.dry_run =>
              /\ ret.listings = args.listings_before
              /\ ret.pending = <<>>
              /\ ret.updated_count = 0
              /\ ~ret.committed
        /\ \A id \in DOMAIN args.listings_before :
              /\ ret.listings[id] =
                     [args.listings_before[id] EXCEPT !.estimated_monthly_cashflow =
                         ret.listings[id].estimated_monthly_cashflow]
              /\ ret.listings[id] # args.listings_before[id] =>
                     /\ ret.committed
                     /\ ret.listings[id].estimated_monthly_cashflow = ComputedCashflow(id)
              /\ id \in DOMAIN ret.pending => ret.pending[id] = Some(ComputedCashflow(id))
              /\ PriceUnusable(args.listings_before[id]) =>
                     /\ ret.listings[id] = args.listings_before[id]
                     /\ id \notin DOMAIN ret.pending
        /\ DOMAIN ret.pending \subseteq DOMAIN args.listings_before

\* a live run has committed: the first listing has its computed cashflow, the
\* second, selected but without a price, is as it was
C25_Witness ==
    /\ pc = "returned" /\ ~args.args.dry_run /\ ret.committed
    /\ DOMAIN args.listings_before = 1..2
    /\ ret.processed_count = 2 /\ ret.updated_count = 1
    /\ args.listings_before[1].estimated_monthly_cashflow = None
    /\ ~PriceUnusable(args.listings_before[1])
    /\ ret.listings[1].estimated_monthly_cashflow = ComputedCashflow(1)
    /\ args.listings_before[2].price = None
    /\ ret.listings[2] = args.listings_before[2]

\* a dry run has gone through two listings with a price
C25_WitnessDryRun ==
    /\ pc = "returned" /\ args.args.dry_run /\ ret.processed_count = 2
    /\ \A id \in 1..2 : ~PriceUnusable(args.listings_before[id])
    /\ ret.listings = args.listings_before

\* a live run ended on an exception: nothing was committed
C25_WitnessRaised ==
    /\ pc = "raised" /\ ~args.args.dry_run /\ ~ret.committed
    /\ ret.listings = args.listings_before

-----------------------------------------------------------------------------
(* Properties of the three variants of calculate_financial_components *)

VariantsComputed == pc = "variants_computed"

\* the fields that the three variants share
SharedComponents(components) ==
    << components.down_payment_amount, components.loan_amount,
       components.monthly_p_and_i, components.monthly_taxes,
       components.monthly_insurance, components.total_monthly_expenses,
       components.net_monthly_cashflow >>

\* what a call came to: nothing (the input was rejected), the exception, or
\* the shared fields
Outcome(components) ==
    IF components = None THEN <<"rejected">>
    ELSE IF components.raised # "" THEN <<"raised", components.raised>>
    ELSE <<"returned", SharedComponents(components)>>

\* C26: with dynamic CapEx off, the three variants of
\* calculate_financial_components (cashflow_analyzer, modified_cashflow_analyzer,
\* appreciation_and_cashflow_analyzer) are equivalent: for the same price, tax
\* text, rent, down payment, rate, term, insurance and misc cost they return
\* the same down_payment_amount, loan_amount, monthly_p_and_i, monthly_taxes,
\* monthly_insurance, total_monthly_expenses and net_monthly_cashflow, and they
\* reject the same inputs.
C26_VariantsAgree ==
    VariantsComputed /\ ~args.use_dynamic_capex =>
        /\ Outcome(ret.cashflow_analyzer) = Outcome(ret.appreciation_and_cashflow_analyzer)
        /\ Outcome(ret.modified_cashflow_analyzer)
               = Outcome(ret.appreciation_and_cashflow_analyzer)

\* the three variants returned components for a loan with a down payment
\* above the price clamped, a parsed tax text and a rent
C26_Witness ==
    /\ VariantsComputed /\ ~args.use_dynamic_capex
    /\ args.down_payment_dollars = R(3000) /\ args.est_monthly_rent # None
    /\ Outcome(ret.cashflow_analyzer)[1] = "returned"
    /\ ret.cashflow_analyzer.monthly_taxes = R(100)
    /\ ret.modified_cashflow_analyzer.loan_amount = R(0)
    /\ ret.appreciation_and_cashflow_analyzer.net_monthly_cashflow
           = ret.cashflow_analyzer.net_monthly_cashflow

\* the three variants rejected a listing priced at 0
C26_WitnessRejected ==
    /\ VariantsComputed /\ args.purchase_price = R(0)
    /\ Outcome(ret.cashflow_analyzer) = <<"rejected">>
    /\ Outcome(ret.modified_cashflow_analyzer) = <<"rejected">>

-----------------------------------------------------------------------------
(* Properties of the income measures *)

\* C27: in dynamic mode the two income measures are consistent, in both
\* variants: annual_cashflow = annual_noi - 12 * monthly_p_and_i for every
\* input, i.e. NOI counts exactly the expenses in total_monthly_expenses other
\* than P&I, and cap_rate = annual_noi / purchase_price * 100.
C27_CashflowIsNoiLessDebtService ==
    (ComponentsReturned /\ args.use_dynamic_capex) =>
        /\ ret.annual_cashflow =
               RSub(ret.annual_noi, RMul(R(12), ret.monthly_p_and_i))
        /\ ret.annual_noi =
               RSub(RMul(ret.effective_rent_after_vacancy, R(12)),
                    RMul(RSub(ret.total_monthly_expenses, ret.monthly_p_and_i), R(12)))
        /\ ret.cap_rate = RMul(RDiv(ret.annual_noi, args.purchase_price), R(100))

\* a listing in dynamic mode with a loan that costs 150 a month, a positive
\* NOI and a cashflow below it, computed by appreciation_and_cashflow_analyzer.py
C27_Witness ==
    /\ ComponentsReturned /\ pc = "computed" /\ args.use_dynamic_capex
    /\ RLt(R(0), ret.monthly_p_and_i)
    /\ RLt(R(0), ret.annual_noi)
    /\ RLt(ret.annual_cashflow, ret.annual_noi)
    /\ RLt(R(0), ret.cap_rate)

\* the same in modified_cashflow_analyzer.py
C27_WitnessModified ==
    /\ ComponentsReturned /\ pc = "computed_modified" /\ args.use_dynamic_capex
    /\ RLt(R(0), ret.monthly_p_and_i)
    /\ RLt(ret.annual_cashflow, ret.annual_noi)

-----------------------------------------------------------------------------
(* Properties of the projected loan balance *)

\* calculate_appreciation_returns returned the projection of a loan with a
\* term
LoanProjected == pc = "projected" /\ ret.raised = "" /\ args.financials.loan_term_years > 0

\* the balance one year after the horizon of the call
BalanceAYearLater ==
    remaining_balance_of(args.financials.loan_amount,
        calculate_mortgage_payment(args.financials.loan_amount,
            args.financials.annual_interest_rate_percent,
            args.financials.loan_term_years).v,
        args.financials.annual_interest_rate_percent,
        args.financials.loan_term_years, args.investment_horizon + 1)

\* C28: for every loan, rate >= 0, term > 0 and horizon >= 0 the projected
\* remaining_loan_balance lies between 0 and loan_amount and does not increase
\* as the horizon grows, so equity_from_mortgage_paydown lies in
\* [0, loan_amount], and total_profit = equity_from_mortgage_paydown +
\* total_appreciation + annual_cashflow * horizon
C28_BalanceWithinLoanAndFalling ==
    LoanProjected =>
        /\ RLe(R(0), ret.remaining_loan_balance)
        /\ RLe(ret.remaining_loan_balance, args.financials.loan_amount)
        /\ RLe(BalanceAYearLater, ret.remaining_loan_balance)
        /\ RLe(R(0), ret.equity_from_mortgage_paydown)
        /\ RLe(ret.equity_from_mortgage_paydown, args.financials.loan_amount)
        /\ ret.equity_from_mortgage_paydown =
               RSub(args.financials.loan_amount, ret.remaining_loan_balance)
        /\ ret.total_profit =
               RAdd(RAdd(ret.equity_from_mortgage_paydown, ret.total_appreciation),
                    RMul(args.financials.annual_cashflow, R(args.investment_horizon)))

\* a loan of 100 at 100% a month over two years, one year in: the balance is
\* 100 * 4096/4097, below the loan and above the 0 of a year later
C28_Witness ==
    /\ LoanProjected
    /\ args.financials.loan_amount = R(100)
    /\ args.financials.annual_interest_rate_percent = R(1200)
    /\ args.financials.loan_term_years = 2
    /\ args.investment_horizon = 1
    /\ ret.remaining_loan_balance = Rat(409600, 4097)
    /\ BalanceAYearLater = R(0)
    /\ ret.equity_from_mortgage_paydown = Rat(100, 4097)

\* an interest-free loan of 100 over 30 years, two years in, with a cashflow of
\* 120 a year and 4% appreciation on a price of 100
C28_WitnessInterestFree ==
    /\ LoanProjected
    /\ args.financials.loan_amount = R(100)
    /\ args.financials.annual_interest_rate_percent = R(0)
    /\ args.financials.loan_term_years = 30
    /\ args.financials.annual_cashflow = R(120)
    /\ args.investment_horizon = 2
    /\ args.resolve.manual_appreciation_rate = Some(4)
    /\ ret.remaining_loan_balance = Rat(280, 3)
    /\ ret.total_profit = RAdd(RAdd(Rat(20, 3), Rat(204, 25)), R(240))

-----------------------------------------------------------------------------
(* Properties of calculate_mortgage_payment on every term *)

\* C29: calculate_mortgage_payment returns a defined number and never raises
\* for every principal, every rate >= 0 and every term_years >= 0: principal
\* <= 0 gives 0, a zero rate gives principal / (term_years * 12) (up to
\* rounding), and a term of 0 years gives 0 whatever the rate
C29_PaymentDefinedForEveryTerm ==
    pc = "payment_computed" =>
        /\ ret.raised = ""
        /\ args.principal <= 0 => ret.v = FZero
        /\ args.term_years = 0 => ret.v = FZero
        /\ (args.principal > 0 /\ args.term_years > 0 /\ args.annual_rate_percent = FZero) =>
               /\ ~FLessRatio(ret.v, BigMul(BigOfNat(args.principal), BigOfNat(999999999)),
                              BigMul(BigOfNat(args.term_years * 12), BigOfNat(1000000000)))
               /\ FLessRatio(ret.v, BigMul(BigOfNat(args.principal), BigOfNat(1000000001)),
                             BigMul(BigOfNat(args.term_years * 12), BigOfNat(1000000000)))

====
